---- MODULE Spec2Model ----
(***************************************************************************)
(* Model of wt: git worktree management (crates/wt-core, crates/wt-cli and *)
(* the flat src/ commands) and the worker orchestration built on it.       *)
(*                                                                         *)
(* Names and paths are sequences of one-character strings, relative to the *)
(* worktrees root .worktrees/ (the root itself is the empty sequence).     *)
(***************************************************************************)
EXTENDS Integers, Sequences, FiniteSets, TLC

\* ------------------------------------------------------------------------
\* Bounds of the model
\* ------------------------------------------------------------------------

\* commits a worktree branch may be ahead of the base branch
MaxAhead == 1

\* workers ever registered in one state file
MaxWorkers == 2

\* ticks of the wall clock
MaxClock == 2

\* windows `wt spawn --parent` may have opened in all
MaxSpawned == 2

\* worktree names the commands are run with: flat, and one nested name
\* whose parent directory is also a name
WtNames == { <<"a">>, <<"b">>, <<"a", "/", "b">> }

\* arguments given to `wt remove`
Patterns == WtNames \cup { <<"*">>, <<"?">>, <<"a", "*">>, <<"x">> }

\* names nested two directories deep, with a sibling at each level
DeepNames == { <<"a", "/", "b", "/", "a">>, <<"a", "/", "b", "/", "b">>,
               <<"a", "/", "a">> }

\* every path a worktree is made at
AllNames == WtNames \cup DeepNames

Root == << >>

\* branch names given to `wt create -b`; without -b the branch is named as
\* the worktree
BranchNames == WtNames \cup { <<"x">> }

\* no branch: the path is not in git's worktree registry
NoBranch == << >>

\* the base branch of the repository (config::get_base_branch)
BaseBranch == <<"main">>

\* the revisions `git rev-parse --verify` resolves in the repository the
\* worktree commands run in: the base branch and HEAD
RepoRefs == { <<"main">>, <<"refs/heads/", "main">>, <<"HEAD">> }

\* ------------------------------------------------------------------------
\* Paths
\* ------------------------------------------------------------------------

\* byte order of the characters used in names (String's Ord)
CharOrd(c) ==
    CASE c = "*" -> 42
      [] c = "/" -> 47
      [] c = "?" -> 63
      [] c = "a" -> 97
      [] c = "b" -> 98
      [] c = "x" -> 120
      [] OTHER -> 0

RECURSIVE LexLess(_, _)
LexLess(s, t) ==
    IF t = << >> THEN FALSE
    ELSE IF s = << >> THEN TRUE
    ELSE IF Head(s) = Head(t) THEN LexLess(Tail(s), Tail(t))
    ELSE CharOrd(Head(s)) < CharOrd(Head(t))

\* Vec::sort of a set of distinct names
RECURSIVE SortNames(_)
SortNames(S) ==
    IF S = {} THEN << >>
    ELSE LET m == CHOOSE x \in S : \A y \in S \ {x} : LexLess(x, y)
         IN  <<m>> \o SortNames(S \ {m})

SeqToSet(s) == { s[i] : i \in 1..Len(s) }

\* Path::parent, relative to the worktrees root
Parent(p) ==
    LET slashes == { i \in 1..Len(p) : p[i] = "/" }
    IN  IF slashes = {} THEN Root
        ELSE LET k == CHOOSE i \in slashes : \A j \in slashes : j <= i
             IN  SubSeq(p, 1, k - 1)

\* d lies strictly below p
IsBelow(d, p) ==
    /\ Len(d) > Len(p) + 1
    /\ SubSeq(d, 1, Len(p)) = p
    /\ d[Len(p) + 1] = "/"

\* every proper ancestor directory of p below the root
RECURSIVE AncestorDirs(_)
AncestorDirs(p) ==
    IF Parent(p) = Root THEN {}
    ELSE {Parent(p)} \cup AncestorDirs(Parent(p))

\* ------------------------------------------------------------------------
\* State
\* ------------------------------------------------------------------------

VARIABLES
    dirs,       \* directories that exist under .worktrees/ (paths)
    marked,     \* those holding a .git file: the worktrees
    dirty,      \* worktrees with modified or untracked files of their own
    ahead,      \* worktree -> commits of its branch not on the base branch
    branches,   \* the local branches other than the base branch
    checkedOut, \* git's worktree registry: path -> the branch checked out
    excluded,   \* whether .git/info/exclude names .worktrees
    stateFile,  \* .worktrees/.wt-state.json: whether it exists, and its text
    session,    \* whether the repository's tmux session exists
    win,        \* window name -> how many windows run the agent / sit idle
    nextId,     \* the next fresh WorkerId (Uuid::new_v4 never repeats)
    wtState,    \* .wt/state.json: the hierarchy of spawned worktrees
    spawnState, \* the spawn state file: the names of the spawned tasks
    tasks,      \* what the last `wt ps` returned
    procs,      \* concurrent invocations of register: where each stands
    repoDir,    \* the name the repository's directory has now
    stray,      \* the state file at the path the repository had at first
    moved,      \* the tmux session named after the directory's new name
    clock,      \* the wall clock, what Utc::now() returns
    call,       \* a get_worker_status call under way: the probe it is at
    last        \* the last command run and how it ended

fsVars == <<dirs, marked, dirty, ahead, branches, checkedOut, excluded>>

tmuxVars == <<session, win>>

storeVars == <<stateFile, nextId>>

hierVars == <<wtState, spawnState>>

envVars == <<repoDir, stray, moved, clock, call>>

vars == <<dirs, marked, dirty, ahead, branches, checkedOut, excluded,
          stateFile, session, win, nextId, wtState, spawnState, tasks, procs,
          repoDir, stray, moved, clock, call, last>>

\* the file system as one value
FS == [dirs |-> dirs, marked |-> marked, dirty |-> dirty, ahead |-> ahead,
       branches |-> branches, checkedOut |-> checkedOut,
       excluded |-> excluded]

\* ------------------------------------------------------------------------
\* git (crates/wt-core/src/git.rs)
\* ------------------------------------------------------------------------

\* the directories directly inside cur
ChildDirs(fs, cur) == { d \in fs.dirs : Parent(d) = cur }

\* the walk descending into worktrees too
RECURSIVE find_worktrees_recursive_into_marked(_, _)
find_worktrees_recursive_into_marked(fs, cur) ==
    LET sub(d) == (IF d \in fs.marked THEN {d} ELSE {})
                  \cup find_worktrees_recursive_into_marked(fs, d)
    IN  UNION { sub(d) : d \in ChildDirs(fs, cur) }

\* find_worktrees_recursive: a directory with a .git file is a worktree and
\* is not descended into, any other directory is descended into
RECURSIVE find_worktrees_recursive(_, _)
find_worktrees_recursive(fs, cur) ==
    LET sub(d) == IF d \in fs.marked THEN {d}
                  ELSE find_worktrees_recursive(fs, d)
    IN  UNION { sub(d) : d \in ChildDirs(fs, cur) }

\* list_worktree_names: the walk, then sort
list_worktree_names(fs) == SortNames(find_worktrees_recursive(fs, Root))

\* `git status --porcelain` prints something: own changes, or a directory
\* below the worktree (a nested worktree shows as untracked)
StatusNonEmpty(fs, p) ==
    \/ p \in fs.dirty
    \/ \E d \in fs.dirs : IsBelow(d, p)

\* has_uncommitted_changes: Ok(bool); the status subprocess fails outside a
\* directory
has_uncommitted_changes(fs, p) ==
    IF p \notin fs.dirs THEN [ok |-> FALSE, val |-> FALSE]
    ELSE [ok |-> TRUE, val |-> IF p \in fs.marked THEN StatusNonEmpty(fs, p)
                                ELSE FALSE]

\* what `git worktree remove` leaves: the directory and all below it gone
DeleteTree(fs, p) ==
    LET gone == { d \in fs.dirs : d = p \/ IsBelow(d, p) }
    IN  [fs EXCEPT
           !.dirs   = @ \ gone,
           !.marked = @ \ gone,
           !.dirty  = @ \ gone,
           !.ahead  = [n \in AllNames |-> IF n \in gone THEN 0 ELSE @[n]]]

\* remove_worktree: `git worktree remove [--force] path`
remove_worktree(fs, p, force) ==
    IF p \notin fs.marked THEN [fs |-> fs, res |-> "Git"]
    ELSE IF ~force /\ StatusNonEmpty(fs, p)
         THEN [fs |-> fs, res |-> "UncommittedChanges"]
    ELSE [fs |-> [DeleteTree(fs, p) EXCEPT !.checkedOut[p] = NoBranch],
          res |-> "Ok"]

\* the parent-directory loop ended after the first parent
cleanup_empty_parents_once(fs, p) ==
    LET par == Parent(p)
    IN  IF par = Root THEN fs
        ELSE IF ChildDirs(fs, par) # {} \/ par \in fs.marked THEN fs
        ELSE [fs EXCEPT !.dirs = @ \ {par}]

\* the parent-directory loop of remove_single, exit and
\* Worktree::cleanup_empty_parents: remove empty parents, stop at the root or
\* at the first parent that is not empty
RECURSIVE cleanup_empty_parents(_, _)
cleanup_empty_parents(fs, p) ==
    LET par == Parent(p)
    IN  IF par = Root THEN fs
        ELSE IF ChildDirs(fs, par) # {} \/ par \in fs.marked THEN fs
        ELSE cleanup_empty_parents([fs EXCEPT !.dirs = @ \ {par}], par)

\* str::starts_with("origin/")
starts_with_origin(base) == base # << >> /\ Head(base) = "origin/"

\* find_valid_start_point with the local ref tried before origin/<base>
find_valid_start_point_refs_first(refs, base) ==
    LET with_origin  == <<"origin/">> \o base
        with_refs    == <<"refs/heads/">> \o base
        with_remotes == IF starts_with_origin(base)
                        THEN <<"refs/remotes/">> \o base
                        ELSE <<"refs/remotes/", "origin/">> \o base
        name(e) == [ok |-> TRUE, kind |-> "name", rev |-> e]
        sha(e)  == [ok |-> TRUE, kind |-> "sha", rev |-> e]
    IN  IF base \in refs THEN name(base)
        ELSE IF with_refs \in refs THEN sha(with_refs)
        ELSE IF ~starts_with_origin(base) /\ with_origin \in refs
             THEN name(with_origin)
        ELSE IF with_remotes \in refs THEN sha(with_remotes)
        ELSE IF <<"HEAD">> \in refs THEN sha(<<"HEAD">>)
        ELSE [ok |-> FALSE, kind |-> "BranchNotFound", rev |-> base]

\* find_valid_start_point: `refs` are the revisions rev-parse verifies. The
\* first two candidates are returned by name, the others as the commit the
\* revision resolves to
find_valid_start_point(refs, base) ==
    LET with_origin  == <<"origin/">> \o base
        with_refs    == <<"refs/heads/">> \o base
        with_remotes == IF starts_with_origin(base)
                        THEN <<"refs/remotes/">> \o base
                        ELSE <<"refs/remotes/", "origin/">> \o base
        name(e) == [ok |-> TRUE, kind |-> "name", rev |-> e]
        sha(e)  == [ok |-> TRUE, kind |-> "sha", rev |-> e]
    IN  IF base \in refs THEN name(base)
        ELSE IF ~starts_with_origin(base) /\ with_origin \in refs
             THEN name(with_origin)
        ELSE IF with_refs \in refs THEN sha(with_refs)
        ELSE IF with_remotes \in refs THEN sha(with_remotes)
        ELSE IF <<"HEAD">> \in refs THEN sha(<<"HEAD">>)
        ELSE [ok |-> FALSE, kind |-> "BranchNotFound", rev |-> base]

\* branch_exists: the repository has no remote branch named as a worktree
branch_exists(fs, b) == b \in fs.branches

\* git keeps refs as files: a branch cannot be created where an existing
\* branch is a directory of it, or it a directory of an existing one
RefConflict(fs, b) ==
    \E c \in fs.branches : IsBelow(c, b) \/ IsBelow(b, c)

\* `git worktree add [-b b] path [b | start]`: refused for a path still in
\* the registry, for a branch checked out in another worktree, and for a new
\* branch that cannot be created; otherwise the directory with its .git
\* file, on branch b
worktree_add(fs, n, b, new) ==
    IF \/ fs.checkedOut[n] # NoBranch
       \/ new /\ RefConflict(fs, b)
       \/ ~new /\ \E m \in AllNames : fs.checkedOut[m] = b
    THEN [fs |-> fs, res |-> "Git"]
    ELSE [fs |-> [fs EXCEPT !.dirs = @ \cup {n},
                            !.marked = @ \cup {n},
                            !.branches = @ \cup {b},
                            !.checkedOut[n] = b],
          res |-> "Ok"]

\* create_worktree: on the branch if it exists, else on a new branch from
\* the start point found for the base branch
create_worktree(fs, n, b) ==
    IF branch_exists(fs, b) THEN worktree_add(fs, n, b, FALSE)
    ELSE IF ~find_valid_start_point(RepoRefs, BaseBranch).ok
         THEN [fs |-> fs, res |-> "BranchNotFound"]
    ELSE worktree_add(fs, n, b, TRUE)

\* str::strip_prefix("origin/").unwrap_or(branch)
strip_origin(branch) ==
    IF starts_with_origin(branch) THEN Tail(branch) ELSE branch

\* branch_exists in a repository with local branches `heads` and branches
\* `remotes` of the remote origin: refs/heads/<b> or refs/remotes/origin/<b>
\* verifies, b being the name without a leading origin/
branch_exists_in(heads, remotes, branch) ==
    strip_origin(branch) \in heads \/ strip_origin(branch) \in remotes

\* a repository as create_worktree meets it: its local branches, the
\* branches of origin, the revisions that verify for the base branch, and
\* push.autoSetupRemote
\* `git worktree add path rev` without -b: a local branch of that name is
\* checked out; a remote-tracking name gives a detached HEAD; a name only
\* origin has makes git create the local branch tracking it; anything else
\* is an invalid reference
git_worktree_add_existing(repo, rev) ==
    IF rev \in repo.heads
    THEN [res |-> "Ok", repo |-> repo, on |-> rev]
    ELSE IF starts_with_origin(rev) /\ Tail(rev) \in repo.remotes
    THEN [res |-> "Ok", repo |-> repo, on |-> <<"detached">>]
    ELSE IF rev \in repo.remotes
    THEN [res |-> "Ok", repo |-> [repo EXCEPT !.heads = @ \cup {rev}],
          on |-> rev]
    ELSE [res |-> "Git", repo |-> repo, on |-> NoBranch]

\* `git worktree add -b branch path start`: refused when the branch exists
git_worktree_add_new(repo, branch) ==
    IF branch \in repo.heads
    THEN [res |-> "Git", repo |-> repo, on |-> NoBranch]
    ELSE [res |-> "Ok", repo |-> [repo EXCEPT !.heads = @ \cup {branch}],
          on |-> branch]

\* create_worktree in such a repository: what it returns, the repository
\* it leaves, the branch the worktree is on, and whether a start point was
\* looked for
create_worktree_in(repo, branch) ==
    LET exists == branch_exists_in(repo.heads, repo.remotes, branch)
        r == IF exists THEN git_worktree_add_existing(repo, branch)
             ELSE git_worktree_add_new(repo, branch)
    IN  IF ~exists /\ ~find_valid_start_point(repo.refs, BaseBranch).ok
        THEN [res |-> "BranchNotFound", repo |-> repo, on |-> NoBranch,
              resolved |-> TRUE]
        ELSE IF r.res # "Ok"
        THEN [res |-> r.res, repo |-> repo, on |-> NoBranch,
              resolved |-> ~exists]
        ELSE [res |-> "Ok",
              repo |-> IF exists THEN r.repo
                       ELSE [r.repo EXCEPT !.autoSetupRemote = TRUE],
              on |-> r.on, resolved |-> ~exists]

\* ensure_worktrees_excluded: the line is written unless it is there
ensure_worktrees_excluded(fs) == [fs EXCEPT !.excluded = TRUE]

\* std::fs::create_dir_all(worktree_path.parent())
create_dir_all_parent(fs, n) == [fs EXCEPT !.dirs = @ \cup AncestorDirs(n)]

\* ------------------------------------------------------------------------
\* wt create, wt exit (src/src/commands), Worktree (crates/wt-core)
\* ------------------------------------------------------------------------

\* create::run and Worktree::create with the exclude file written before
\* the path is looked at
create_run_exclude_first(fs, n, b) ==
    LET fs1 == ensure_worktrees_excluded(fs)
    IN  IF n \in fs.dirs THEN [fs |-> fs1, res |-> "WorktreeExists"]
        ELSE create_worktree(create_dir_all_parent(fs1, n), n, b)

\* create::run and Worktree::create, on branch b
create_run(fs, n, b) ==
    IF n \in fs.dirs THEN [fs |-> fs, res |-> "WorktreeExists"]
    ELSE create_worktree(
             create_dir_all_parent(ensure_worktrees_excluded(fs), n), n, b)

\* the on-create hook of the repository: whether one is configured, whether
\* its command exits non-zero, and whether it leaves a file in the worktree
Hooks ==
    { h \in [configured : BOOLEAN, fails : BOOLEAN, touches : BOOLEAN] :
        ~h.configured => ( ~h.fails /\ ~h.touches ) }

\* config::run_on_create_hook: Ok(true) without a hook; else `sh -c <hook>`
\* in the worktree, Ok(false) with a warning when it exits non-zero
run_on_create_hook(fs, n, hook) ==
    IF ~hook.configured THEN [fs |-> fs, ran |-> FALSE, val |-> TRUE]
    ELSE [fs |-> IF hook.touches THEN [fs EXCEPT !.dirty = @ \cup {n}]
                 ELSE fs,
          ran |-> TRUE, val |-> ~hook.fails]

\* create::run with its hook step: after the worktree is made, and unless
\* --no-hooks, run_on_create_hook, whose boolean is not looked at
create_run_hooks(fs, n, b, no_hooks, hook) ==
    LET r == create_run(fs, n, b)
        h == run_on_create_hook(r.fs, n, hook)
    IN  IF r.res # "Ok" \/ no_hooks
        THEN [fs |-> r.fs, res |-> r.res, ran |-> FALSE]
        ELSE [fs |-> h.fs, res |-> "Ok", ran |-> h.ran]

\* Worktree::remove with a dirty worktree removed unasked
Worktree_remove_unchecked(fs, p, force) ==
    LET r == remove_worktree(fs, p, TRUE)
    IN  IF r.res # "Ok" THEN r
        ELSE [fs |-> cleanup_empty_parents(r.fs, p), res |-> "Ok"]

\* Worktree::remove
Worktree_remove(fs, p, force) ==
    LET chk == has_uncommitted_changes(fs, p)
    IN  IF ~force /\ ~chk.ok THEN [fs |-> fs, res |-> "Git"]
        ELSE IF ~force /\ chk.val THEN [fs |-> fs, res |-> "UncommittedChanges"]
        ELSE LET r == remove_worktree(fs, p, force)
             IN  IF r.res # "Ok" THEN r
                 ELSE [fs |-> cleanup_empty_parents(r.fs, p), res |-> "Ok"]

\* exit::run, run with the current directory at the top of worktree cwd
\* (Root: not in a worktree)
exit_run(fs, cwd, force) ==
    IF cwd \notin fs.marked THEN [fs |-> fs, res |-> "NotInWorktree"]
    ELSE LET chk == has_uncommitted_changes(fs, cwd)
         IN  IF ~force /\ ~chk.ok THEN [fs |-> fs, res |-> "Git"]
             ELSE IF ~force /\ chk.val
                  THEN [fs |-> fs, res |-> "UncommittedChanges"]
             ELSE LET r == remove_worktree(fs, cwd, force)
                  IN  IF r.res # "Ok" THEN r
                      ELSE [fs |-> cleanup_empty_parents(r.fs, cwd),
                            res |-> "Ok"]

\* ------------------------------------------------------------------------
\* wt remove (crates/wt-cli/src/commands/remove.rs)
\* ------------------------------------------------------------------------

\* glob::Pattern::matches with the default options: `*` is any run of
\* characters, `?` any one character, anything else itself
RECURSIVE GlobMatch(_, _)
GlobMatch(pat, s) ==
    IF pat = << >> THEN s = << >>
    ELSE IF Head(pat) = "*"
         THEN \/ GlobMatch(Tail(pat), s)
              \/ s # << >> /\ GlobMatch(pat, Tail(s))
    ELSE IF s = << >> THEN FALSE
    ELSE IF Head(pat) = "?" THEN GlobMatch(Tail(pat), Tail(s))
    ELSE Head(pat) = Head(s) /\ GlobMatch(Tail(pat), Tail(s))

\* the filter of run: the listed names the pattern matches or equals
Matching(fs, pat) ==
    SelectSeq(list_worktree_names(fs),
              LAMBDA name : GlobMatch(pat, name) \/ name = pat)

\* remove_single
remove_single(fs, p, force) ==
    LET chk == has_uncommitted_changes(fs, p)
    IN  IF ~force /\ ~chk.ok THEN [fs |-> fs, res |-> "Git"]
        ELSE IF ~force /\ chk.val THEN [fs |-> fs, res |-> "UncommittedChanges"]
        ELSE LET r == remove_worktree(fs, p, force)
             IN  IF r.res # "Ok" THEN r
                 ELSE [fs |-> cleanup_empty_parents(r.fs, p), res |-> "Ok"]

\* the loop of run: remove_single on each match in turn, `?` returning at the
\* first error with the earlier removals done
RECURSIVE RemoveEach(_, _, _)
RemoveEach(fs, names, force) ==
    IF names = << >> THEN [fs |-> fs, res |-> "Ok"]
    ELSE LET r == remove_single(fs, Head(names), force)
         IN  IF r.res # "Ok" THEN r
             ELSE RemoveEach(r.fs, Tail(names), force)

\* remove::run
remove_run(fs, pat, force) ==
    LET matching == Matching(fs, pat)
    IN  IF matching = << >>
        THEN IF pat \in fs.dirs THEN remove_single(fs, pat, force)
             ELSE [fs |-> fs, res |-> "WorktreeNotFound"]
        ELSE RemoveEach(fs, matching, force)

\* ------------------------------------------------------------------------
\* Worker and OrchestratorState (crates/wt-core/src/worker.rs, state.rs)
\* ------------------------------------------------------------------------

\* names workers are spawned with
WorkerNames == { <<"a">>, <<"b">> }

\* WorkerStatus
Statuses == {"Spawned", "Running", "WaitingReview", "Approved", "Merged",
             "Failed", "Archived"}

\* Worker::is_terminal
is_terminal(w) == w.status \in {"Merged", "Failed", "Archived"}

\* Worker::is_active
is_active(w) == ~is_terminal(w)

\* Worker::new: status Spawned, window named after the worker, both
\* timestamps the time of the call
Worker_new(id, name, tmux_session, now) ==
    [id |-> id, name |-> name, task |-> FALSE, status |-> "Spawned",
     tmux_session |-> tmux_session, created_at |-> now, updated_at |-> now]

\* Worker::set_status
set_status(w, status, now) ==
    [w EXCEPT !.status = status, !.updated_at = now]

\* Worker::set_task: the worker has a task context from now on
set_task(w, now) == [w EXCEPT !.task = TRUE, !.updated_at = now]

\* the names the repository's directory goes by: the one it has at first
\* and the one it is renamed to
OrigDir == "repo"

RepoDirs == {OrigDir, "moved"}

\* spawn::get_session_name: wt-<file name of the repository root>
get_session_name(dir) == <<"wt-", dir>>

\* OrchestratorState::new: no workers, the root it is given, and the session
\* name made from the root's file name
OrchestratorState_new(repo_root) ==
    [workers |-> [i \in {} |-> 0], repo_root |-> repo_root,
     tmux_session |-> <<"wt-", repo_root>>]

\* OrchestratorState::add_worker: HashMap::insert under the worker's id
add_worker(st, w) == [st EXCEPT !.workers = (w.id :> w) @@ @]

\* the workers get_worker_by_name and get_worker_by_name_mut may return:
\* the first of that name in the HashMap's iteration order, which is any
by_name(st, name) ==
    { id \in DOMAIN st.workers : st.workers[id].name = name }

\* OrchestratorState::active_workers
active_workers(st) ==
    { id \in DOMAIN st.workers : is_active(st.workers[id]) }

\* ids in ascending order
RECURSIVE SortIds(_)
SortIds(S) ==
    IF S = {} THEN << >>
    ELSE LET m == CHOOSE x \in S : \A y \in S : x <= y
         IN  <<m>> \o SortIds(S \ {m})

\* serde_json::to_string_pretty: the document as a sequence of tokens, an
\* opening brace with the fields of the state itself, one token per worker,
\* a closing brace
Serialize(st) ==
    LET ids == SortIds(DOMAIN st.workers)
    IN  <<[t |-> "{", repo_root |-> st.repo_root,
           tmux_session |-> st.tmux_session]>>
        \o [i \in 1..Len(ids) |->
              [t |-> "worker", id |-> ids[i],
               name |-> st.workers[ids[i]].name,
               task |-> st.workers[ids[i]].task,
               status |-> st.workers[ids[i]].status,
               tmux_session |-> st.workers[ids[i]].tmux_session,
               created_at |-> st.workers[ids[i]].created_at,
               updated_at |-> st.workers[ids[i]].updated_at]]
        \o <<[t |-> "}"]>>

\* what serde_json::from_str accepts: a complete document
WellFormed(bytes) ==
    /\ Len(bytes) >= 2
    /\ bytes[1].t = "{"
    /\ bytes[Len(bytes)].t = "}"
    /\ \A i \in 2..(Len(bytes) - 1) : bytes[i].t = "worker"

\* serde_json::from_str of a complete document
Deserialize(bytes) ==
    LET idx == 2..(Len(bytes) - 1)
    IN  [workers |->
           [id \in { bytes[i].id : i \in idx } |->
              LET i == CHOOSE j \in idx : bytes[j].id = id
              IN  [id |-> id, name |-> bytes[i].name,
                   task |-> bytes[i].task,
                   status |-> bytes[i].status,
                   tmux_session |-> bytes[i].tmux_session,
                   created_at |-> bytes[i].created_at,
                   updated_at |-> bytes[i].updated_at]],
         repo_root |-> bytes[1].repo_root,
         tmux_session |-> bytes[1].tmux_session]

NoFile == [exists |-> FALSE, bytes |-> << >>]

\* OrchestratorState::load: Ok(None) without a file, Err on a document that
\* does not parse
load(file) ==
    IF ~file.exists
    THEN [ok |-> TRUE, some |-> FALSE, st |-> OrchestratorState_new(OrigDir)]
    ELSE IF ~WellFormed(file.bytes)
    THEN [ok |-> FALSE, some |-> FALSE, st |-> OrchestratorState_new(OrigDir)]
    ELSE [ok |-> TRUE, some |-> TRUE, st |-> Deserialize(file.bytes)]

\* File::create, the first half of fs::write: the file exists and is empty
file_create(file) == [exists |-> TRUE, bytes |-> << >>]

\* write_all on a file opened for appending: the text goes in at the end
write_all_append(file, bytes) ==
    [exists |-> TRUE, bytes |-> file.bytes \o bytes]

\* write_all, the second half of fs::write: the text goes in from offset 0
\* over whatever the file holds by then
write_all(file, bytes) ==
    [exists |-> TRUE,
     bytes |-> bytes \o SubSeq(file.bytes, Len(bytes) + 1, Len(file.bytes))]

\* OrchestratorState::save, run to completion
save(st) == write_all(file_create(NoFile), Serialize(st))

\* OrchestratorState::load_or_create
load_or_create(file, repo_root) ==
    LET l == load(file)
    IN  [ok |-> l.ok,
         st |-> IF l.some THEN l.st ELSE OrchestratorState_new(repo_root)]

\* ------------------------------------------------------------------------
\* tmux (crates/wt-core/src/session.rs)
\* ------------------------------------------------------------------------

\* the names tmux windows are given: those of the workers and worktrees
WindowNames == WorkerNames \cup WtNames

\* tmux as one value: tm.win[n].run windows named n with the agent in the
\* foreground, tm.win[n].idle with the shell back at its prompt
NoWin == [run |-> 0, idle |-> 0]

WinCount(tm, n) == tm.win[n].run + tm.win[n].idle

\* the shell of an idle pane, and the foreground command of a running one
ShellCmd == "zsh"

AgentCmd == "claude"

\* session_exists: `tmux has-session` succeeds
session_exists(tm) == tm.session

\* ensure_session: new-session unless it exists
ensure_session(tm) ==
    IF ~session_exists(tm) THEN [tm EXCEPT !.session = TRUE] ELSE tm

\* window_exists: the name is a line of `tmux list-windows`
window_exists(tm, n) == session_exists(tm) /\ WinCount(tm, n) > 0

\* what tmux does with a target session:n: with one window of that name it
\* acts on it; with several the target is ambiguous and tmux either refuses
\* ("none") or acts on one of them
Targets(tm, n) ==
    LET kinds == {k \in {"run", "idle"} : tm.win[n][k] > 0}
    IN  IF WinCount(tm, n) = 0 THEN {"none"}
        ELSE IF WinCount(tm, n) = 1 THEN kinds
        ELSE kinds \cup {"none"}

\* create_window: ensure_session, then new-window, whose pane starts at the
\* shell prompt
create_window(tm, n) ==
    [ensure_session(tm) EXCEPT !.win[n].idle = @ + 1]

\* send_keys of the agent command to target session:n (the exit status of
\* tmux is not looked at)
send_keys(tm, n) ==
    { IF k = "idle"
      THEN [tm EXCEPT !.win[n].idle = @ - 1, !.win[n].run = @ + 1]
      ELSE tm : k \in Targets(tm, n) }

\* session::kill_window: nothing without such a window, else kill-window on
\* target session:n (the exit status of tmux is not looked at)
kill_window(tm, n) ==
    IF ~window_exists(tm, n) THEN {tm}
    ELSE { IF k = "none" THEN tm ELSE [tm EXCEPT !.win[n][k] = @ - 1]
           : k \in Targets(tm, n) }

\* what `tmux list-panes -F #{pane_current_command}` prints for target
\* session:n, trimmed: nothing when tmux refuses the target
PaneCommands(tm, n) ==
    { CASE k = "run" -> AgentCmd
        [] k = "idle" -> ShellCmd
        [] OTHER -> "" : k \in Targets(tm, n) }

\* what stands for list-panes not having been started at all (Err)
SpawnErr == "<not run>"

\* pane_is_running on what list-panes printed: false when tmux could not
\* be started, else whether the output is not a shell name
pane_is_running(tm, n, cmd) ==
    /\ window_exists(tm, n)
    /\ cmd # SpawnErr
    /\ cmd \notin {"bash", "zsh", "fish", "sh"}

\* the probes of one status query that may fail (not run, or non-zero exit)
ProbeFaults == {"none", "has-session", "list-windows"}

\* tmux as the probes of one status query for n see it: a failed
\* has-session reads as no session (unwrap_or(false)), a failed
\* list-windows as no window of any name (no output lines, or Err)
ProbeView(tm, n, fault) ==
    CASE fault = "has-session" -> [tm EXCEPT !.session = FALSE]
      [] fault = "list-windows" -> [tm EXCEPT !.win[n] = NoWin]
      [] OTHER -> tm

\* get_worker_status asking for the window before the session
get_worker_status_window_first(tm, n, cmd) ==
    IF ~window_exists(tm, n) THEN "no-window"
    ELSE IF ~session_exists(tm) THEN "no-session"
    ELSE IF pane_is_running(tm, n, cmd) THEN "running"
    ELSE "exited"

\* get_worker_status, cmd being what list-panes prints if it is asked
get_worker_status(tm, n, cmd) ==
    IF ~session_exists(tm) THEN "no-session"
    ELSE IF ~window_exists(tm, n) THEN "no-window"
    ELSE IF pane_is_running(tm, n, cmd) THEN "running"
    ELSE "exited"

\* the statuses get_worker_status gives for n when tmux stays as it is
\* during the call
StatusesOf(tm, n) ==
    { get_worker_status(tm, n, cmd) : cmd \in PaneCommands(tm, n) }

\* no get_worker_status call under way
NoCall ==
    [pc |-> "idle", n |-> << >>, res |-> "", held |-> {},
     at |-> [session |-> FALSE, win |-> [n \in WindowNames |-> NoWin]]]

\* one tmux subprocess of get_worker_status(session, n), run on tmux as it
\* is at that moment: the probe to run next, or the status returned. The
\* probes are has-session of get_worker_status, has-session and
\* list-windows of window_exists, and has-session, list-windows and
\* list-panes of pane_is_running
status_step(pc, tm, n) ==
    LET next(p) == {[pc |-> p, res |-> ""]}
        done(s) == {[pc |-> "done", res |-> s]}
    IN  CASE pc = "has-session" ->
               IF session_exists(tm) THEN next("w:has-session")
               ELSE done("no-session")
          [] pc = "w:has-session" ->
               IF session_exists(tm) THEN next("w:list-windows")
               ELSE done("no-window")
          [] pc = "w:list-windows" ->
               IF window_exists(tm, n) THEN next("p:has-session")
               ELSE done("no-window")
          [] pc = "p:has-session" ->
               IF session_exists(tm) THEN next("p:list-windows")
               ELSE done("exited")
          [] pc = "p:list-windows" ->
               IF window_exists(tm, n) THEN next("p:list-panes")
               ELSE done("exited")
          [] OTHER ->
               UNION { IF cmd \in {"bash", "zsh", "fish", "sh"}
                       THEN done("exited") ELSE done("running")
                       : cmd \in IF session_exists(tm)
                                 THEN PaneCommands(tm, n) ELSE {""} }

\* list_windows: nothing without the session, else the names of its windows
\* (the session's first window, named after its shell, is no worktree name
\* and is left out)
list_windows(tm) ==
    IF ~session_exists(tm) THEN << >>
    ELSE LET names == SortNames(WindowNames)
             rep[i \in 0..Len(names)] ==
                 IF i = 0 THEN << >>
                 ELSE rep[i - 1]
                      \o [j \in 1..WinCount(tm, names[i]) |-> names[i]]
         IN  rep[Len(names)]

\* ------------------------------------------------------------------------
\* spawn operations (crates/wt-core/src/spawn.rs) and the commands on them
\* (crates/wt-cli/src/commands)
\* ------------------------------------------------------------------------

\* what a command works on: the worktrees, the state file, tmux, the
\* next fresh worker id, and the time it runs at
World ==
    [fs |-> FS, file |-> stateFile, stray |-> stray, dir |-> repoDir,
     tm |-> IF repoDir = OrigDir THEN [session |-> session, win |-> win]
            ELSE moved,
     nextId |-> nextId, now |-> clock]

\* state.save() of a state loaded in w: the file written is the one under
\* the root the state itself holds
save_at(w, st) ==
    IF st.repo_root = w.dir THEN [w EXCEPT !.file = save(st)]
    ELSE [w EXCEPT !.stray = save(st)]

\* spawn::register: load_or_create, add a new worker, save
register(w, n) ==
    LET l == load_or_create(w.file, w.dir)
        worker == Worker_new(w.nextId, n, get_session_name(w.dir), w.now)
    IN  IF ~l.ok THEN [w |-> w, res |-> "Json"]
        ELSE [w |-> [save_at(w, add_worker(l.st, worker))
                       EXCEPT !.nextId = @ + 1],
              res |-> "Ok"]

\* spawn::launch_tmux_window: create_window, then send_keys
launch_tmux_window(w, n) ==
    { [w EXCEPT !.tm = t] : t \in send_keys(create_window(w.tm, n), n) }

\* the worktree step of spawn::run: created, on a branch of its name,
\* unless the path exists
spawn_worktree(w, n) ==
    IF n \notin w.fs.dirs
    THEN LET r == create_worktree(
                      create_dir_all_parent(
                          ensure_worktrees_excluded(w.fs), n), n, n)
         IN  [w |-> [w EXCEPT !.fs = r.fs], res |-> r.res]
    ELSE [w |-> w, res |-> "Ok"]

\* spawn::run with the window created before the record is written
spawn_run_window_first(w, n, steps) ==
    LET r1 == spawn_worktree(w, n)
        w1 == r1.w
        w2 == [w1 EXCEPT !.tm = create_window(w1.tm, n)]
        r3 == register(w2, n)
    IN  IF r1.res # "Ok" THEN {r1}
        ELSE IF steps = 1 THEN {[w |-> w1, res |-> "Interrupted"]}
        ELSE IF steps = 2 THEN {[w |-> w2, res |-> "Interrupted"]}
        ELSE IF r3.res # "Ok" THEN {r3}
        ELSE IF steps = 3 THEN {[w |-> r3.w, res |-> "Interrupted"]}
        ELSE { [w |-> [r3.w EXCEPT !.tm = t], res |-> "Ok"]
               : t \in send_keys(r3.w.tm, n) }

\* spawn::run, the process killed after `steps` of its four steps (worktree,
\* record, window, keys) when steps < 4
spawn_run(w, n, steps) ==
    LET r1 == spawn_worktree(w, n)
        w1 == r1.w
        r2 == register(w1, n)
        w3 == [r2.w EXCEPT !.tm = create_window(r2.w.tm, n)]
    IN  IF r1.res # "Ok" THEN {r1}
        ELSE IF steps = 1 THEN {[w |-> w1, res |-> "Interrupted"]}
        ELSE IF r2.res # "Ok" THEN {r2}
        ELSE IF steps = 2 THEN {[w |-> r2.w, res |-> "Interrupted"]}
        ELSE IF steps = 3 THEN {[w |-> w3, res |-> "Interrupted"]}
        ELSE { [w |-> x, res |-> "Ok"] : x \in launch_tmux_window(r2.w, n) }

\* the tmux subprocesses of one spawn that may exit non-zero
TmuxFaults == {"none", "new-session", "new-window", "send-keys"}

\* ensure_session when new-session exits non-zero if `fails`: .output()?
\* is an error only when tmux cannot be started, so the result is Ok
ensure_session_faulty(tm, fails) ==
    IF ~session_exists(tm) /\ ~fails THEN [tm EXCEPT !.session = TRUE]
    ELSE tm

\* create_window with the named subprocess exiting non-zero: new-window
\* also fails without the session; in each case the result is Ok
create_window_faulty(tm, n, fault) ==
    LET t == ensure_session_faulty(tm, fault = "new-session")
    IN  IF fault = "new-window" \/ ~session_exists(t) THEN t
        ELSE [t EXCEPT !.win[n].idle = @ + 1]

\* send_keys with the named subprocess exiting non-zero: the result is Ok
send_keys_faulty(tm, n, fault) ==
    IF fault = "send-keys" \/ ~session_exists(tm) THEN {tm}
    ELSE send_keys(tm, n)

\* spawn::launch_tmux_window with the named subprocess exiting non-zero
launch_tmux_window_faulty(w, n, fault) ==
    { [w EXCEPT !.tm = t]
      : t \in send_keys_faulty(create_window_faulty(w.tm, n, fault),
                               n, fault) }

\* spawn::run with the named tmux subprocess exiting non-zero
spawn_run_faulty(w, n, fault) ==
    LET r1 == spawn_worktree(w, n)
        r2 == register(r1.w, n)
    IN  IF r1.res # "Ok" THEN {r1}
        ELSE IF r2.res # "Ok" THEN {r2}
        ELSE { [w |-> x, res |-> "Ok"]
               : x \in launch_tmux_window_faulty(r2.w, n, fault) }

\* spawn::unregister: archive the worker of that name, if the file has one
unregister(w, n) ==
    LET l == load(w.file)
    IN  IF ~l.ok THEN {[w |-> w, res |-> "Json"]}
        ELSE IF ~l.some \/ by_name(l.st, n) = {}
        THEN {[w |-> w, res |-> "Ok"]}
        ELSE { [w |-> save_at(w, [l.st EXCEPT !.workers[id] =
                                    set_status(@, "Archived", w.now)]),
                res |-> "Ok"] : id \in by_name(l.st, n) }

\* spawn::kill: kill the window, then, if the state file has a worker of
\* that name, assign it Archived and save
spawn_kill(w, n) ==
    LET l == load(w.file)
        archived(id) == [l.st EXCEPT !.workers[id].status = "Archived"]
    IN  UNION {
          IF ~l.ok THEN {[w |-> [w EXCEPT !.tm = t], res |-> "Json"]}
          ELSE IF ~l.some \/ by_name(l.st, n) = {}
          THEN {[w |-> [w EXCEPT !.tm = t], res |-> "Ok"]}
          ELSE { [w |-> save_at([w EXCEPT !.tm = t], archived(id)),
                  res |-> "Ok"] : id \in by_name(l.st, n) }
          : t \in kill_window(w.tm, n) }

\* kill::run: spawn::kill_window, then spawn::unregister
kill_run(w, n) ==
    UNION { unregister([w EXCEPT !.tm = t], n)
            : t \in kill_window(w.tm, n) }

\* git::merge_branch went through: nothing of the branch is ahead any more
merge_branch(fs, n) == [fs EXCEPT !.ahead[n] = 0]

\* merge::run with the worker unregistered and its window killed before
\* anything is checked
merge_run_unregister_first(w, n, merges) ==
    LET chk == has_uncommitted_changes(w.fs, n)
    IN  UNION {
          UNION {
            IF n \notin w.fs.dirs
            THEN {[w |-> [u.w EXCEPT !.tm = t], res |-> "WorktreeNotFound"]}
            ELSE IF ~chk.ok
            THEN {[w |-> [u.w EXCEPT !.tm = t], res |-> "Git"]}
            ELSE IF chk.val
            THEN {[w |-> [u.w EXCEPT !.tm = t], res |-> "UncommittedChanges"]}
            ELSE IF ~merges
            THEN {[w |-> [u.w EXCEPT !.tm = t], res |-> "Git"]}
            ELSE {[w |-> [u.w EXCEPT !.fs = merge_branch(w.fs, n), !.tm = t],
                   res |-> u.res]}
            : t \in kill_window(w.tm, n) }
          : u \in unregister(w, n) }

\* merge::run; merges says whether `git merge` exits zero
merge_run(w, n, merges) ==
    LET chk == has_uncommitted_changes(w.fs, n)
        w1 == [w EXCEPT !.fs = merge_branch(w.fs, n)]
    IN  IF n \notin w.fs.dirs THEN {[w |-> w, res |-> "WorktreeNotFound"]}
        ELSE IF ~chk.ok THEN {[w |-> w, res |-> "Git"]}
        ELSE IF chk.val THEN {[w |-> w, res |-> "UncommittedChanges"]}
        ELSE IF ~merges THEN {[w |-> w, res |-> "Git"]}
        ELSE UNION {
               IF u.res # "Ok" THEN {u}
               ELSE { [w |-> [u.w EXCEPT !.tm = t], res |-> "Ok"]
                      : t \in kill_window(w1.tm, n) }
               : u \in unregister(w1, n) }

\* merge::run with the process killed between spawn::unregister and
\* spawn::kill_window
merge_run_interrupted(w, n) ==
    LET chk == has_uncommitted_changes(w.fs, n)
        w1 == [w EXCEPT !.fs = merge_branch(w.fs, n)]
    IN  IF n \notin w.fs.dirs \/ ~chk.ok \/ chk.val THEN {}
        ELSE { [w |-> u.w, res |-> "Interrupted"] : u \in unregister(w1, n) }

\* no window name given to attach
NoName == << >>

\* session::attach: TmuxSessionNotFound without the session, else the
\* process becomes `tmux attach`
session_attach(tm, selected) ==
    IF ~session_exists(tm)
    THEN [res |-> "TmuxSessionNotFound", selected |-> selected,
          attached |-> FALSE]
    ELSE [res |-> "Ok", selected |-> selected, attached |-> TRUE]

\* spawn::attach: with a name, WorkerNotFound unless window_exists, then
\* select_window (the exit status of tmux is not looked at); then
\* session::attach
spawn_attach(tm, name) ==
    IF name # NoName
    THEN IF ~window_exists(tm, name)
         THEN {[res |-> "WorkerNotFound", selected |-> FALSE,
                attached |-> FALSE]}
         ELSE { session_attach(tm, k # "none") : k \in Targets(tm, name) }
    ELSE {session_attach(tm, FALSE)}

\* the names list_tasks runs its git probes on: the workers of the state
\* file, or without one the windows, whose directory exists
Probed(w) ==
    LET l == load(w.file)
        names == IF l.ok /\ l.some
                 THEN { l.st.workers[id].name : id \in DOMAIN l.st.workers }
                 ELSE IF l.ok THEN SeqToSet(list_windows(w.tm))
                 ELSE {}
    IN  names \cap w.fs.dirs

\* the probes of one `wt ps`: what list-panes prints per window name (one
\* of the answers tmux can give), and the names for which `git log` and
\* `git status`, if run, fail
Oracles(w) ==
    LET cmds == { c \in [WorkerNames -> {AgentCmd, ShellCmd, ""}] :
                    \A n \in WorkerNames : c[n] \in PaneCommands(w.tm, n) }
    IN  { [cmd |-> c, logFails |-> lf, statusFails |-> sf,
             fault |-> [n \in WorkerNames |-> "none"]] :
            c \in cmds, lf \in SUBSET Probed(w), sf \in SUBSET Probed(w) }

\* the probes of one `wt ps` during which git answers and tmux may fail:
\* per name, has-session or list-windows fails, or list-panes is not run
\* or exits non-zero printing nothing
FaultyOracles(w) ==
    { [cmd |-> c, logFails |-> {}, statusFails |-> {}, fault |-> f] :
        c \in { c \in [WorkerNames -> {AgentCmd, ShellCmd, "", SpawnErr}] :
                  \A n \in WorkerNames :
                     c[n] \in PaneCommands(w.tm, n) \cup {"", SpawnErr} },
        f \in [WorkerNames -> ProbeFaults] }

\* the commit count with a failed `git log` not defaulted
commits_ahead_unwrapped(fs, n, o) == fs.ahead[n]

\* the probes of a `wt ps` during which git answers every time
ProbesOk(w) ==
    { o \in Oracles(w) : o.logFails = {} /\ o.statusFails = {} }

\* get_commits_ahead(..).unwrap_or_default().len()
commits_ahead(fs, n, o) == IF n \in o.logFails THEN 0 ELSE fs.ahead[n]

\* has_uncommitted_changes(..).unwrap_or(false)
is_dirty(fs, n, o) ==
    IF n \in o.statusFails THEN FALSE
    ELSE LET chk == has_uncommitted_changes(fs, n)
         IN  IF chk.ok THEN chk.val ELSE FALSE

TaskInfo(name, status, commits, isDirty) ==
    [name |-> name, status |-> status, commits_ahead |-> commits,
     is_dirty |-> isDirty]

\* list_tasks, the branch with a state file: one entry per worker
tasks_from_state(w, st, o) ==
    LET ids == SortIds(DOMAIN st.workers)
        entry(n) ==
            TaskInfo(n, get_worker_status(ProbeView(w.tm, n, o.fault[n]), n,
                                       o.cmd[n]),
                     IF n \in w.fs.dirs THEN commits_ahead(w.fs, n, o) ELSE 0,
                     IF n \in w.fs.dirs THEN is_dirty(w.fs, n, o) ELSE FALSE)
    IN  [i \in 1..Len(ids) |-> entry(st.workers[ids[i]].name)]

\* the branch without a state file, windows not matched against directories
tasks_from_windows_unfiltered(w, o) ==
    LET present == list_windows(w.tm)
        entry(n) ==
            TaskInfo(n, get_worker_status(ProbeView(w.tm, n, o.fault[n]), n,
                                       o.cmd[n]),
                     commits_ahead(w.fs, n, o), is_dirty(w.fs, n, o))
    IN  [i \in 1..Len(present) |-> entry(present[i])]

\* list_tasks, the branch without one: one entry per window whose name is
\* a path under the worktrees directory
tasks_from_windows(w, o) ==
    LET present == SelectSeq(list_windows(w.tm), LAMBDA n : n \in w.fs.dirs)
        entry(n) ==
            TaskInfo(n, get_worker_status(ProbeView(w.tm, n, o.fault[n]), n,
                                       o.cmd[n]),
                     commits_ahead(w.fs, n, o), is_dirty(w.fs, n, o))
    IN  [i \in 1..Len(present) |-> entry(present[i])]

\* spawn::list_tasks
list_tasks(w, o) ==
    LET l == load(w.file)
    IN  IF ~l.ok THEN [res |-> "Json", tasks |-> << >>]
        ELSE IF l.some
        THEN [res |-> "Ok", tasks |-> tasks_from_state(w, l.st, o)]
        ELSE [res |-> "Ok", tasks |-> tasks_from_windows(w, o)]

\* ps::run writing back what it found: workers without a window archived
ps_run_reconciling(w, o) ==
    LET r == list_tasks(w, o)
        l == load(w.file)
        st == [l.st EXCEPT !.workers =
                 [id \in DOMAIN l.st.workers |->
                    IF window_exists(w.tm, l.st.workers[id].name)
                    THEN l.st.workers[id]
                    ELSE set_status(l.st.workers[id], "Archived", w.now)]]
    IN  [w |-> IF l.ok /\ l.some THEN save_at(w, st) ELSE w,
         res |-> r.res, tasks |-> r.tasks]

\* ps::run: list_tasks and print; nothing is written
ps_run(w, o) ==
    LET r == list_tasks(w, o)
    IN  [w |-> w, res |-> r.res, tasks |-> r.tasks]

\* ------------------------------------------------------------------------
\* Hierarchical worktrees (src/src/core, src/src/commands/spawn.rs and
\* remove.rs)
\* ------------------------------------------------------------------------

\* --parent not given
NoParent == << >>

\* WorktreeState::default, also what load gives without a file
WorktreeState_default == [n \in {} |-> 0]

\* WorktreeState::add
WorktreeState_add(st, name, parent) ==
    LET st1 == IF /\ parent # NoParent
                  /\ parent \in DOMAIN st
                  /\ name \notin SeqToSet(st[parent].children)
               THEN [st EXCEPT ![parent].children = Append(@, name)]
               ELSE st
    IN  (name :> [parent |-> parent, children |-> << >>]) @@ st1

\* WorktreeState::remove
WorktreeState_remove(st, name) ==
    LET parent_name == IF name \in DOMAIN st THEN st[name].parent
                       ELSE NoParent
        st1 == IF parent_name # NoParent /\ parent_name \in DOMAIN st
               THEN [st EXCEPT ![parent_name].children =
                                  SelectSeq(@, LAMBDA c : c # name)]
               ELSE st
    IN  [k \in DOMAIN st1 \ {name} |-> st1[k]]

\* WorktreeState::get_all_children: each child, followed by its own
RECURSIVE get_all_children(_, _)
get_all_children(st, name) ==
    IF name \notin DOMAIN st THEN << >>
    ELSE LET ch == st[name].children
             f[i \in 0..Len(ch)] ==
                 IF i = 0 THEN << >>
                 ELSE f[i - 1] \o <<ch[i]>> \o get_all_children(st, ch[i])
         IN  f[Len(ch)]

\* str::ends_with
ends_with(w, name) ==
    /\ Len(w) >= Len(name)
    /\ SubSeq(w, Len(w) - Len(name) + 1, Len(w)) = name

\* Worktree::find: the listed worktree of that name, else the only one whose
\* name ends with it
core_find(fs, name) ==
    LET l == list_worktree_names(fs)
        part == SelectSeq(l, LAMBDA w : ends_with(w, name))
    IN  IF name \in SeqToSet(l) THEN [res |-> "Some", name |-> name]
        ELSE IF Len(part) = 0 THEN [res |-> "None", name |-> Root]
        ELSE IF Len(part) = 1 THEN [res |-> "Some", name |-> part[1]]
        ELSE [res |-> "Ambiguous", name |-> Root]

\* the regular expression ^pattern$ with `*` replaced by `.*` and `?` by
\* `.`: a `.` of the pattern is the regular expression's dot as well
RECURSIVE regex_is_match(_, _)
regex_is_match(pat, s) ==
    IF pat = << >> THEN s = << >>
    ELSE IF Head(pat) = "*"
         THEN \/ regex_is_match(Tail(pat), s)
              \/ s # << >> /\ regex_is_match(pat, Tail(s))
    ELSE IF s = << >> THEN FALSE
    ELSE IF Head(pat) \in {"?", "."} THEN regex_is_match(Tail(pat), Tail(s))
    ELSE Head(pat) = Head(s) /\ regex_is_match(Tail(pat), Tail(s))

\* Worktree::match_pattern
match_pattern(fs, pattern) ==
    SelectSeq(list_worktree_names(fs),
              LAMBDA name : regex_is_match(pattern, name))

\* Worktree::cleanup_empty_dirs: every directory above the path and below
\* the worktrees directory, removed if it is empty
RECURSIVE cleanup_empty_dirs(_, _)
cleanup_empty_dirs(fs, p) ==
    LET dir == Parent(p)
        empty == /\ dir \in fs.dirs
                 /\ ChildDirs(fs, dir) = {}
                 /\ dir \notin fs.marked
    IN  IF dir = Root THEN fs
        ELSE cleanup_empty_dirs(
                 IF empty THEN [fs EXCEPT !.dirs = @ \ {dir}] ELSE fs, dir)

\* Worktree::remove (src/src/core/worktree.rs)
core_remove(fs, name, force) ==
    LET f == core_find(fs, name)
        r == remove_worktree(fs, f.name, force)
    IN  IF f.res = "None" THEN [fs |-> fs, res |-> "WorktreeNotFound"]
        ELSE IF f.res = "Ambiguous" THEN [fs |-> fs, res |-> "Ambiguous"]
        ELSE IF r.res # "Ok" THEN r
        ELSE [fs |-> cleanup_empty_dirs(r.fs, f.name), res |-> "Ok"]

\* Worktree::create (src/src/core/worktree.rs), on a branch of its name
core_create(fs, n) ==
    IF n \in fs.dirs THEN [fs |-> fs, res |-> "WorktreeExists"]
    ELSE LET r == worktree_add(create_dir_all_parent(fs, n), n, n,
                               ~branch_exists(fs, n))
         IN  IF r.res # "Ok" THEN r
             ELSE [fs |-> ensure_worktrees_excluded(r.fs), res |-> "Ok"]

\* Tmux::send_keys: the exit status of tmux is looked at
core_send_keys(tm, n) ==
    { CASE k = "idle" -> [tm |-> [tm EXCEPT !.win[n].idle = @ - 1,
                                           !.win[n].run = @ + 1],
                          res |-> "Ok"]
        [] k = "run"  -> [tm |-> tm, res |-> "Ok"]
        [] OTHER      -> [tm |-> tm, res |-> "Tmux"] : k \in Targets(tm, n) }

\* what the hierarchical commands work on
Hier == [fs |-> FS, tm |-> [session |-> session, win |-> win],
         st |-> wtState, sp |-> spawnState]

\* spawn::run (src/src/commands/spawn.rs): the worktree, its task files
\* (`clean`: they leave git status empty), the spawn state, the hierarchy
\* entry, the window, the agent command
hier_spawn_run(h, n, parent, clean) ==
    LET c == core_create(h.fs, n)
        h1 == [h EXCEPT
                 !.fs = IF clean THEN c.fs
                        ELSE [c.fs EXCEPT !.dirty = @ \cup {n}],
                 !.sp = @ \cup {n},
                 !.st = WorktreeState_add(@, n, parent),
                 !.tm = create_window(@, n)]
    IN  IF c.res # "Ok" THEN {[h |-> [h EXCEPT !.fs = c.fs], res |-> c.res]}
        ELSE { [h |-> [h1 EXCEPT !.tm = k.tm], res |-> k.res]
               : k \in core_send_keys(h1.tm, n) }

\* String::contains('*') || contains('?')
contains_glob(pattern) ==
    \E i \in 1..Len(pattern) : pattern[i] \in {"*", "?"}

\* the expansion of remove::run: each match, followed by those of its
\* children and their children that find gives a worktree for
all_to_remove(fs, st, matches) ==
    LET found(child_name) ==
            LET f == core_find(fs, child_name)
            IN  IF f.res = "Some" THEN <<f.name>> ELSE << >>
        children(entry) ==
            LET ch == get_all_children(st, entry)
                f[i \in 0..Len(ch)] ==
                    IF i = 0 THEN << >> ELSE f[i - 1] \o found(ch[i])
            IN  f[Len(ch)]
        all[i \in 0..Len(matches)] ==
            IF i = 0 THEN << >>
            ELSE all[i - 1] \o <<matches[i]>> \o children(matches[i])
    IN  all[Len(matches)]

\* the removal pass of remove::run, `?` returning at the first error
RECURSIVE hier_remove_each(_, _, _, _)
hier_remove_each(fs, st, names, force) ==
    IF names = << >> THEN [fs |-> fs, st |-> st, res |-> "Ok"]
    ELSE LET r == core_remove(fs, Head(names), force)
         IN  IF r.res # "Ok" THEN [fs |-> r.fs, st |-> st, res |-> r.res]
             ELSE hier_remove_each(r.fs,
                                   WorktreeState_remove(st, Head(names)),
                                   Tail(names), force)

\* remove::run (src/src/commands/remove.rs); `confirm` is the answer given
\* to its prompt. The state is saved after the last removal only
hier_remove_run(h, pattern, force, recursive, confirm) ==
    LET f == core_find(h.fs, pattern)
        matches == IF contains_glob(pattern)
                   THEN match_pattern(h.fs, pattern)
                   ELSE IF f.res = "Some" THEN <<f.name>> ELSE << >>
        all == IF recursive THEN all_to_remove(h.fs, h.st, matches)
               ELSE matches
        dirty_ones == { i \in 1..Len(all) : StatusNonEmpty(h.fs, all[i]) }
        r == hier_remove_each(h.fs, h.st, all, force)
    IN  IF ~contains_glob(pattern) /\ f.res = "Ambiguous"
        THEN [h |-> h, res |-> "Ambiguous"]
        ELSE IF matches = << >> THEN [h |-> h, res |-> "WorktreeNotFound"]
        ELSE IF ~force /\ Len(all) > 1 /\ ~confirm
             THEN [h |-> h, res |-> "Aborted"]
        ELSE IF ~force /\ dirty_ones # {}
             THEN [h |-> h, res |-> "UncommittedChanges"]
        ELSE IF r.res # "Ok" THEN [h |-> [h EXCEPT !.fs = r.fs], res |-> r.res]
        ELSE [h |-> [h EXCEPT !.fs = r.fs, !.st = r.st], res |-> "Ok"]

\* Tmux::window_exists (src/src/core/tmux.rs): `tmux select-window` on target
\* session:n exits zero
core_window_exists(tm, n) ==
    IF ~session_exists(tm) THEN {FALSE}
    ELSE { k # "none" : k \in Targets(tm, n) }

\* Tmux::kill_window (src/src/core/tmux.rs): the exit status of tmux is
\* looked at
core_kill_window(tm, n) ==
    { IF k = "none" \/ ~session_exists(tm) THEN [tm |-> tm, res |-> "Tmux"]
      ELSE [tm |-> [tm EXCEPT !.win[n][k] = @ - 1], res |-> "Ok"]
      : k \in Targets(tm, n) }

\* kill::run (src/src/commands/kill.rs): refuses without the session or the
\* window, else kills the window and removes the task from the spawn state
hier_kill_run(h, n) ==
    IF ~session_exists(h.tm) THEN {[h |-> h, res |-> "NoSession"]}
    ELSE UNION {
           IF ~e THEN {[h |-> h, res |-> "NoWindow"]}
           ELSE { IF k.res # "Ok" THEN [h |-> h, res |-> k.res]
                  ELSE [h |-> [h EXCEPT !.tm = k.tm, !.sp = @ \ {n}],
                        res |-> "Ok"]
                  : k \in core_kill_window(h.tm, n) }
           : e \in core_window_exists(h.tm, n) }

\* ------------------------------------------------------------------------
\* git diff --numstat (crates/wt-core/src/git.rs)
\* ------------------------------------------------------------------------

Tab == "\t"

Newline == "\n"

DecimalDigits == {"0", "1", "2", "3", "4", "5", "6", "7", "8", "9"}

\* the value of a decimal digit
DigitValue(c) ==
    CASE c = "0" -> 0 [] c = "1" -> 1 [] c = "2" -> 2 [] c = "3" -> 3
      [] c = "4" -> 4 [] c = "5" -> 5 [] c = "6" -> 6 [] c = "7" -> 7
      [] c = "8" -> 8 [] c = "9" -> 9

\* str::parse::<usize>: an optional `+`, then one or more decimal digits;
\* anything else is an error
parse_usize(s) ==
    LET body == IF s # << >> /\ Head(s) = "+" THEN Tail(s) ELSE s
        value[i \in 0..Len(body)] ==
            IF i = 0 THEN 0 ELSE 10 * value[i - 1] + DigitValue(body[i])
    IN  IF body = << >> \/ \E i \in 1..Len(body) : body[i] \notin DecimalDigits
        THEN [ok |-> FALSE, val |-> 0]
        ELSE [ok |-> TRUE, val |-> value[Len(body)]]

\* Result::unwrap_or
unwrap_or(r, default) == IF r.ok THEN r.val ELSE default

\* str::split(sep): the pieces between the separators, empty ones included
RECURSIVE split(_, _)
split(s, sep) ==
    IF \A i \in 1..Len(s) : s[i] # sep THEN <<s>>
    ELSE LET i == CHOOSE j \in 1..Len(s) :
                      s[j] = sep /\ \A k \in 1..(j - 1) : s[k] # sep
         IN  <<SubSeq(s, 1, i - 1)>> \o split(SubSeq(s, i + 1, Len(s)), sep)

\* str::lines: the pieces between the newlines, without a last empty one
lines(text) ==
    LET pieces == split(text, Newline)
    IN  IF pieces[Len(pieces)] = << >>
        THEN SubSeq(pieces, 1, Len(pieces) - 1)
        ELSE pieces

\* DiffStats::default
DiffStats_default ==
    [files_changed |-> 0, insertions |-> 0, deletions |-> 0, files |-> << >>]

\* the loop body of get_diff_stats with a line whose counts do not parse
\* left out
add_line_skip_binary(stats, line) ==
    LET parts == split(line, Tab)
    IN  IF Len(parts) >= 3 /\ parse_usize(parts[1]).ok
           /\ parse_usize(parts[2]).ok
        THEN [files_changed |-> stats.files_changed + 1,
              insertions |-> stats.insertions + parse_usize(parts[1]).val,
              deletions |-> stats.deletions + parse_usize(parts[2]).val,
              files |-> Append(stats.files,
                               [path |-> parts[3],
                                insertions |-> parse_usize(parts[1]).val,
                                deletions |-> parse_usize(parts[2]).val])]
        ELSE stats

\* the loop body of get_diff_stats: one line of the numstat text
add_line(stats, line) ==
    LET parts == split(line, Tab)
        insertions == unwrap_or(parse_usize(parts[1]), 0)
        deletions == unwrap_or(parse_usize(parts[2]), 0)
    IN  IF Len(parts) >= 3
        THEN [files_changed |-> stats.files_changed + 1,
              insertions |-> stats.insertions + insertions,
              deletions |-> stats.deletions + deletions,
              files |-> Append(stats.files,
                               [path |-> parts[3], insertions |-> insertions,
                                deletions |-> deletions])]
        ELSE stats

\* git::get_diff_stats on what `git diff --numstat` printed; success says
\* whether git exited zero
get_diff_stats(success, text) ==
    LET ls == lines(text)
        stats[i \in 0..Len(ls)] ==
            IF i = 0 THEN DiffStats_default ELSE add_line(stats[i - 1], ls[i])
    IN  IF ~success THEN DiffStats_default ELSE stats[Len(ls)]

\* the operations of git.rs that run git and look at how it ended
ShellOps == {"create_worktree", "remove_worktree", "has_uncommitted_changes",
             "get_commits_ahead", "get_diff_stats", "get_diff",
             "merge_branch"}

\* what git may have written to standard error, in pieces
StderrTexts ==
    { << >>, <<"fatal: not a git repository">>,
      <<"fatal: '", "b", "' contains modified or untracked files">>,
      <<"error: ", "invalid object">> }

Dirty == "' contains modified or untracked files"

\* what each operation returns once its git subprocess has ended, from the
\* exit status and the captured standard error: Ok, or an error kind and
\* the text the error carries
on_exit(op, success, stderr) ==
    LET Ok == [ok |-> TRUE, kind |-> "Ok", text |-> << >>]
        Git == [ok |-> FALSE, kind |-> "Git", text |-> stderr]
    IN  CASE op = "remove_worktree" ->
               IF success THEN Ok
               ELSE IF \E i \in DOMAIN stderr : stderr[i] = Dirty
               THEN [ok |-> FALSE, kind |-> "UncommittedChanges",
                     text |-> << >>]
               ELSE Git
          [] op \in {"get_commits_ahead", "get_diff_stats"} -> Ok
          [] OTHER -> IF success THEN Ok ELSE Git

\* concurrent invocations of `wt spawn`, each in its own process
Procs == {"p1", "p2"}

\* a process that has not started
IdleProc ==
    [pc |-> "idle", n |-> Root, id |-> 0,
     st |-> OrchestratorState_new(OrigDir), prev |-> NoFile]

\* ------------------------------------------------------------------------
\* Worktree commands as actions
\* ------------------------------------------------------------------------

Cmd(op, arg, force, res) ==
    [op |-> op, arg |-> arg, force |-> force, res |-> res]

SetFS(fs) ==
    /\ dirs' = fs.dirs
    /\ marked' = fs.marked
    /\ dirty' = fs.dirty
    /\ ahead' = fs.ahead
    /\ branches' = fs.branches
    /\ checkedOut' = fs.checkedOut
    /\ excluded' = fs.excluded

SetWorld(w) ==
    /\ SetFS(w.fs)
    /\ stateFile' = w.file
    /\ stray' = w.stray
    /\ repoDir' = w.dir
    /\ IF w.dir = OrigDir
       THEN /\ session' = w.tm.session
            /\ win' = w.tm.win
            /\ moved' = moved
       ELSE /\ moved' = w.tm
            /\ UNCHANGED tmuxVars
    /\ nextId' = w.nextId
    /\ UNCHANGED <<clock, call>>

\* a step of one command run on its own: it prints no task list
Silent ==
    /\ tasks' = << >>
    /\ UNCHANGED procs

\* such a step of a command that knows no worktree hierarchy
Quiet ==
    /\ Silent
    /\ UNCHANGED hierVars

\* a step that leaves the state file and tmux alone
FsOnly ==
    /\ UNCHANGED <<stateFile, session, win, nextId, envVars>>
    /\ Quiet

\* a fresh clone: no worktrees, no state file, no tmux session
Fresh ==
    /\ dirs = {}
    /\ marked = {}
    /\ dirty = {}
    /\ ahead = [n \in AllNames |-> 0]
    /\ branches = {}
    /\ checkedOut = [n \in AllNames |-> NoBranch]
    /\ excluded = FALSE
    /\ stateFile = NoFile
    /\ session = FALSE
    /\ win = [n \in WindowNames |-> NoWin]
    /\ nextId = 1
    /\ wtState = WorktreeState_default
    /\ spawnState = {}
    /\ tasks = << >>
    /\ procs = [p \in Procs |-> IdleProc]
    /\ repoDir = OrigDir
    /\ clock = 0
    /\ call = NoCall
    /\ stray = NoFile
    /\ moved = [session |-> FALSE, win |-> [n \in WindowNames |-> NoWin]]

Init ==
    /\ Fresh
    /\ last = Cmd("init", Root, FALSE, "Ok")

\* wt create <n> [-b <b>]
Create(n, b) ==
    LET r == create_run(FS, n, b)
    IN  /\ SetFS(r.fs)
        /\ last' = Cmd("create", n, FALSE, r.res)
        /\ FsOnly

\* wt create <n> [-b <b>] [--no-hooks], with that hook configured
CreateHooks(n, b, no_hooks, hook) ==
    LET r == create_run_hooks(FS, n, b, no_hooks, hook)
    IN  /\ SetFS(r.fs)
        /\ last' = Cmd("create",
                       [name |-> n, no_hooks |-> no_hooks, hook |-> hook,
                        ran |-> r.ran], FALSE, r.res)
        /\ FsOnly

\* wt remove [--force] <pat>
Remove(pat, force) ==
    LET r == remove_run(FS, pat, force)
    IN  /\ SetFS(r.fs)
        /\ last' = Cmd("remove", pat, force, r.res)
        /\ FsOnly

\* Worktree::open(n)?.remove(force)
WorktreeRemove(n, force) ==
    /\ n \in dirs
    /\ LET r == Worktree_remove(FS, n, force)
       IN  /\ SetFS(r.fs)
           /\ last' = Cmd("Worktree::remove", n, force, r.res)
    /\ FsOnly

\* wt exit [--force], run inside worktree cwd or in the base repository
Exit(cwd, force) ==
    /\ cwd \in marked \cup {Root}
    /\ LET r == exit_run(FS, cwd, force)
       IN  /\ SetFS(r.fs)
           /\ last' = Cmd("exit", cwd, force, r.res)
    /\ FsOnly

\* mkdir -p .worktrees/<n>, by hand
Mkdir(n) ==
    /\ n \notin dirs
    /\ dirs' = dirs \cup {n} \cup AncestorDirs(n)
    /\ last' = Cmd("mkdir", n, FALSE, "Ok")
    /\ UNCHANGED <<marked, dirty, ahead, branches, checkedOut, excluded>>
    /\ FsOnly

\* the user or the agent edits a file in worktree n
Touch(n) ==
    /\ n \in marked \ dirty
    /\ dirty' = dirty \cup {n}
    /\ last' = Cmd("touch", n, FALSE, "Ok")
    /\ UNCHANGED <<dirs, marked, ahead, branches, checkedOut, excluded>>
    /\ FsOnly

\* the changes of worktree n are committed on its branch
Commit(n) ==
    /\ n \in dirty
    /\ ahead[n] < MaxAhead
    /\ dirty' = dirty \ {n}
    /\ ahead' = [ahead EXCEPT ![n] = @ + 1]
    /\ last' = Cmd("commit", n, FALSE, "Ok")
    /\ UNCHANGED <<dirs, marked, branches, checkedOut, excluded>>
    /\ FsOnly

\* ------------------------------------------------------------------------
\* Orchestration commands as actions, each run on its own from start to end
\* ------------------------------------------------------------------------

\* wt spawn <n>, ended after `steps` of its four steps
Spawn(n, steps) ==
    /\ nextId <= MaxWorkers
    /\ \E r \in spawn_run(World, n, steps) :
          /\ SetWorld(r.w)
          /\ last' = Cmd("spawn", n, FALSE, r.res)
    /\ Quiet

\* wt spawn <n> with the named tmux subprocess exiting non-zero
SpawnFaulty(n, fault) ==
    /\ nextId <= MaxWorkers
    /\ \E r \in spawn_run_faulty(World, n, fault) :
          /\ SetWorld(r.w)
          /\ last' = Cmd("spawn", n, FALSE, r.res)
    /\ Quiet

\* wt kill <n>
Kill(n) ==
    /\ \E r \in kill_run(World, n) :
          /\ SetWorld(r.w)
          /\ last' = Cmd("kill", n, FALSE, r.res)
    /\ Quiet

\* spawn::kill(n)
SpawnKill(n) ==
    /\ \E r \in spawn_kill(World, n) :
          /\ SetWorld(r.w)
          /\ last' = Cmd("spawn::kill", n, FALSE, r.res)
    /\ Quiet

\* spawn::unregister(n)
Unregister(n) ==
    /\ \E u \in unregister(World, n) :
          /\ SetWorld(u.w)
          /\ last' = Cmd("unregister", n, FALSE, u.res)
    /\ Quiet

\* wt attach [<name>]
Attach(name) ==
    /\ \E r \in spawn_attach(World.tm, name) :
          last' = Cmd("attach",
                      [name |-> name, selected |-> r.selected,
                       attached |-> r.attached], FALSE, r.res)
    /\ UNCHANGED <<fsVars, tmuxVars, storeVars, envVars>>
    /\ Quiet

\* wt merge <n>
Merge(n, merges) ==
    /\ \E r \in merge_run(World, n, merges) :
          /\ SetWorld(r.w)
          /\ last' = Cmd("merge", n, FALSE, r.res)
    /\ Quiet

\* wt merge <n>, the process killed before it reaches spawn::kill_window
MergeInterrupted(n) ==
    /\ \E r \in merge_run_interrupted(World, n) :
          /\ SetWorld(r.w)
          /\ last' = Cmd("merge", n, FALSE, r.res)
    /\ Quiet

\* a client of the library loads the state, calls Worker::set_status on the
\* worker with that id, and saves
SetStatus(id, status) ==
    /\ load(stateFile).ok
    /\ id \in DOMAIN load(stateFile).st.workers
    /\ SetWorld(save_at(World, [load(stateFile).st EXCEPT !.workers[id] =
                                   set_status(@, status, clock)]))
    /\ last' = Cmd("set_status", id, FALSE, "Ok")
    /\ Quiet

\* a client of the library loads the state, calls Worker::set_task on the
\* worker with that id, and saves
SetTask(id) ==
    /\ load(stateFile).ok
    /\ id \in DOMAIN load(stateFile).st.workers
    /\ SetWorld(save_at(World, [load(stateFile).st EXCEPT !.workers[id] =
                                   set_task(@, clock)]))
    /\ last' = Cmd("set_task", id, FALSE, "Ok")
    /\ Quiet

\* wt ps, its probes answering as o says
Ps(o) ==
    /\ LET r == ps_run(World, o)
       IN  /\ SetWorld(r.w)
           /\ tasks' = r.tasks
           /\ last' = Cmd("ps", o, FALSE, r.res)
    /\ UNCHANGED <<procs, hierVars>>

\* ------------------------------------------------------------------------
\* Hierarchical commands as actions
\* ------------------------------------------------------------------------

SetHier(h) ==
    /\ SetFS(h.fs)
    /\ session' = h.tm.session
    /\ win' = h.tm.win
    /\ wtState' = h.st
    /\ spawnState' = h.sp

\* the windows open, whatever their names
WindowsOpen ==
    LET names == SortNames(WindowNames)
        f[i \in 0..Len(names)] ==
            IF i = 0 THEN 0 ELSE f[i - 1] + WinCount(Hier.tm, names[i])
    IN  f[Len(names)]

\* wt spawn <n> [--parent <parent>]
HierSpawn(n, parent, clean) ==
    /\ WindowsOpen < MaxSpawned
    /\ \E r \in hier_spawn_run(Hier, n, parent, clean) :
          /\ SetHier(r.h)
          /\ last' = Cmd("spawn", [name |-> n, parent |-> parent], FALSE,
                         r.res)
    /\ UNCHANGED <<storeVars, envVars>>
    /\ Silent

\* wt remove [--force] [--recursive] <pattern>
HierRemove(pattern, force, recursive, confirm) ==
    /\ LET r == hier_remove_run(Hier, pattern, force, recursive, confirm)
       IN  /\ SetHier(r.h)
           /\ last' = Cmd(IF recursive THEN "remove --recursive"
                          ELSE "remove", pattern, force, r.res)
    /\ UNCHANGED <<storeVars, envVars>>
    /\ Silent

\* wt kill <n> (src/src/commands/kill.rs)
HierKill(n) ==
    /\ \E r \in hier_kill_run(Hier, n) :
          /\ SetHier(r.h)
          /\ last' = Cmd("kill", n, FALSE, r.res)
    /\ UNCHANGED <<storeVars, envVars>>
    /\ Silent

\* ------------------------------------------------------------------------
\* What happens outside the tool
\* ------------------------------------------------------------------------

\* the agent in a window named n exits and the pane is back at the shell
PaneExit(n) ==
    /\ session
    /\ win[n].run > 0
    /\ win' = [win EXCEPT ![n].run = @ - 1, ![n].idle = @ + 1]
    /\ last' = Cmd("pane-exit", n, FALSE, "Ok")
    /\ UNCHANGED <<fsVars, storeVars, session, envVars>>
    /\ Quiet

\* the user closes a window named n by hand
CloseWindow(n, k) ==
    /\ session
    /\ win[n][k] > 0
    /\ win' = [win EXCEPT ![n][k] = @ - 1]
    /\ last' = Cmd("close-window", n, FALSE, "Ok")
    /\ UNCHANGED <<fsVars, storeVars, session, envVars>>
    /\ Quiet

\* tmux kill-session, or the tmux server goes away
CloseSession ==
    /\ session
    /\ session' = FALSE
    /\ win' = [n \in WindowNames |-> NoWin]
    /\ last' = Cmd("close-session", Root, FALSE, "Ok")
    /\ UNCHANGED <<fsVars, storeVars, envVars>>
    /\ Quiet

\* mv of the repository's directory to the name d, which must be free: the
\* worktrees and the state file move with it, the tmux sessions stay
RenameRepo(d) ==
    /\ d # repoDir
    /\ d = OrigDir => ~stray.exists
    /\ repoDir' = d
    /\ last' = Cmd("rename", d, FALSE, "Ok")
    /\ UNCHANGED <<fsVars, tmuxVars, storeVars, stray, moved, clock, call>>
    /\ Quiet

\* get_worker_status(session, n) is called
StatusBegin(n) ==
    /\ call.pc \in {"idle", "done"}
    /\ call' = [pc |-> "has-session", n |-> n, res |-> "",
                held |-> StatusesOf(World.tm, n), at |-> World.tm]
    /\ last' = Cmd("get_worker_status", n, FALSE, "called")
    /\ UNCHANGED <<fsVars, tmuxVars, storeVars, repoDir, stray, moved, clock>>
    /\ Quiet

\* the call runs its next tmux subprocess
StatusProbe ==
    /\ call.pc \notin {"idle", "done"}
    /\ \E r \in status_step(call.pc, World.tm, call.n) :
          /\ call' = [call EXCEPT
                        !.pc = r.pc, !.res = r.res, !.at = World.tm,
                        !.held = @ \cup StatusesOf(World.tm, call.n)]
          /\ last' = Cmd("probe", call.n, FALSE, r.pc)
    /\ UNCHANGED <<fsVars, tmuxVars, storeVars, repoDir, stray, moved, clock>>
    /\ Quiet

\* tmux has changed during the call: what it is now is noted among the
\* states that held during the call
Observe ==
    /\ call.pc \notin {"idle", "done"}
    /\ call.at # World.tm
    /\ call' = [call EXCEPT !.at = World.tm,
                            !.held = @ \cup StatusesOf(World.tm, call.n)]
    /\ last' = Cmd("observe", call.n, FALSE, "Ok")
    /\ UNCHANGED <<fsVars, tmuxVars, storeVars, repoDir, stray, moved, clock>>
    /\ Quiet

\* time passes: the wall clock moves on
Tick ==
    /\ clock < MaxClock
    /\ clock' = clock + 1
    /\ last' = Cmd("tick", Root, FALSE, "Ok")
    /\ UNCHANGED <<fsVars, tmuxVars, storeVars, repoDir, stray, moved, call>>
    /\ Quiet

\* the state file is deleted by hand
DeleteState ==
    /\ stateFile.exists
    /\ stateFile' = NoFile
    /\ last' = Cmd("delete-state", Root, FALSE, "Ok")
    /\ UNCHANGED <<fsVars, tmuxVars, nextId, envVars>>
    /\ Quiet

\* rm -rf of the worktree directory n
DeleteDir(n) ==
    /\ n \in dirs
    /\ SetFS(DeleteTree(FS, n))
    /\ last' = Cmd("delete-dir", n, FALSE, "Ok")
    /\ FsOnly

\* ------------------------------------------------------------------------
\* Two invocations of spawn::register at once, step by step
\* ------------------------------------------------------------------------

\* register up to state.add_worker: load_or_create, Worker::new, add_worker
RegLoad(p, n) ==
    /\ procs[p].pc = "idle"
    /\ LET l == load_or_create(stateFile, repoDir)
           worker == Worker_new(nextId, n, get_session_name(repoDir), clock)
       IN  IF ~l.ok
           THEN /\ procs' = [procs EXCEPT ![p].pc = "failed", ![p].n = n]
                /\ nextId' = nextId
                /\ last' = Cmd("register", n, FALSE, "Json")
           ELSE /\ procs' = [procs EXCEPT ![p] =
                       [pc |-> "loaded", n |-> n, id |-> nextId,
                        st |-> add_worker(l.st, worker),
                        prev |-> NoFile]]
                /\ nextId' = nextId + 1
                /\ last' = Cmd("register", n, FALSE, "loaded")
    /\ tasks' = << >>
    /\ UNCHANGED <<fsVars, tmuxVars, hierVars, stateFile, envVars>>

\* state.save(), first half: fs::write opens the file, truncating it
SaveCreate(p) ==
    /\ procs[p].pc = "loaded"
    /\ stateFile' = file_create(stateFile)
    /\ procs' = [procs EXCEPT ![p].pc = "created", ![p].prev = stateFile]
    /\ last' = Cmd("register", procs[p].n, FALSE, "created")
    /\ tasks' = << >>
    /\ UNCHANGED <<fsVars, tmuxVars, hierVars, nextId, envVars>>

\* state.save(), second half: the document is written; register returns Ok
SaveWrite(p) ==
    /\ procs[p].pc = "created"
    /\ stateFile' = write_all(stateFile, Serialize(procs[p].st))
    /\ procs' = [procs EXCEPT ![p].pc = "done"]
    /\ last' = Cmd("register", procs[p].n, FALSE, "Ok")
    /\ tasks' = << >>
    /\ UNCHANGED <<fsVars, tmuxVars, hierVars, nextId, envVars>>

\* the process is killed (or the machine goes down) inside fs::write, with
\* the first k tokens of the document written
Crash(p, k) ==
    /\ procs[p].pc = "created"
    /\ k \in 0..Len(Serialize(procs[p].st))
    /\ stateFile' = write_all(stateFile, SubSeq(Serialize(procs[p].st), 1, k))
    /\ procs' = [procs EXCEPT ![p].pc = "crashed"]
    /\ last' = Cmd("register", procs[p].n, FALSE, "crashed")
    /\ tasks' = << >>
    /\ UNCHANGED <<fsVars, tmuxVars, hierVars, nextId, envVars>>

\* ------------------------------------------------------------------------
\* Specifications
\* ------------------------------------------------------------------------

InitWt == Init

NextWt ==
    \/ \E n \in WtNames :
          \E b \in BranchNames \cap {n, <<"x">>} : Create(n, b)
    \/ \E n \in WtNames : Mkdir(n)
    \/ \E pat \in Patterns, force \in BOOLEAN : Remove(pat, force)
    \/ \E n \in WtNames, force \in BOOLEAN : WorktreeRemove(n, force)
    \/ \E cwd \in WtNames \cup {Root}, force \in BOOLEAN : Exit(cwd, force)
    \/ \E n \in WtNames : Touch(n)
    \/ \E n \in WtNames : Commit(n)

\* the worktree commands, run one after another in any order
SpecWt == InitWt /\ [][NextWt]_vars

\* the commands and library calls that write worker records
NextReg ==
    \/ \E n \in WorkerNames, steps \in 1..4 : Spawn(n, steps)
    \/ \E n \in WorkerNames : Kill(n)
    \/ \E n \in WorkerNames : SpawnKill(n)
    \/ \E n \in WorkerNames : Unregister(n)
    \/ \E n \in WorkerNames, merges \in BOOLEAN : Merge(n, merges)
    \/ \E id \in 1..MaxWorkers, status \in Statuses : SetStatus(id, status)

SpecReg == Init /\ [][NextReg]_vars

\* spawn, kill and ps with git answering every probe, while the windows,
\* the directories and the state file also change outside the tool
NextLive ==
    \/ \E n \in WorkerNames : Spawn(n, 4)
    \/ \E n \in WorkerNames : Kill(n)
    \/ \E o \in ProbesOk(World) : Ps(o)
    \/ \E n \in WorkerNames : PaneExit(n)
    \/ \E n \in WorkerNames, k \in {"run", "idle"} : CloseWindow(n, k)
    \/ CloseSession
    \/ DeleteState
    \/ \E n \in WorkerNames : DeleteDir(n)

SpecLive == Init /\ [][NextLive]_vars

\* spawn and ps with git probes that may fail, while the worktrees are
\* edited, committed to and deleted
NextProbe ==
    \/ \E n \in WorkerNames : Spawn(n, 4)
    \/ \E o \in Oracles(World) : Ps(o)
    \/ \E n \in WorkerNames : DeleteDir(n)
    \/ \E n \in WorkerNames : Touch(n)
    \/ \E n \in WorkerNames : Commit(n)

SpecProbe == Init /\ [][NextProbe]_vars

\* spawn and ps with tmux probes that may fail, while panes exit and
\* windows are closed by hand
NextFault ==
    \/ \E n \in WorkerNames : Spawn(n, 4)
    \/ \E o \in FaultyOracles(World) : Ps(o)
    \/ \E n \in WorkerNames : PaneExit(n)
    \/ \E n \in WorkerNames, k \in {"run", "idle"} : CloseWindow(n, k)

SpecFault == Init /\ [][NextFault]_vars

\* base branches find_valid_start_point is called with
Bases == { <<"main">>, <<"origin/", "main">> }

\* the revisions a rev-parse call of find_valid_start_point may or may not
\* verify
Revs ==
    { <<"main">>, <<"origin/", "main">>,
      <<"refs/heads/", "main">>, <<"refs/heads/", "origin/", "main">>,
      <<"refs/remotes/", "origin/", "main">>,
      <<"refs/remotes/", "origin/", "origin/", "main">>,
      <<"HEAD">> }

\* a repository given by the revisions that verify in it, and a base branch
InitStart ==
    /\ Fresh
    /\ \E base \in Bases, refs \in SUBSET Revs :
          last = Cmd("rev-parse", [base |-> base, refs |-> refs], FALSE, "Ok")

\* find_valid_start_point(base) in that repository
StartPoint ==
    /\ last.op = "rev-parse"
    /\ last' = Cmd("find_valid_start_point", last.arg, FALSE,
                   find_valid_start_point(last.arg.refs, last.arg.base))
    /\ UNCHANGED <<fsVars, tmuxVars, storeVars, envVars>>
    /\ Quiet

NextStart == StartPoint

\* the longest numstat output looked at, in lines
MaxLines == 2

\* the count columns git prints: line counts, and `-` for a binary file
CountFields == { <<"3">>, <<"1">>, <<"1", "0">>, <<"-">> }

PathFields == { <<"f">>, <<"b">> }

\* fields joined by tabs
RECURSIVE JoinFields(_)
JoinFields(fields) ==
    IF fields = << >> THEN << >>
    ELSE IF Len(fields) = 1 THEN fields[1]
    ELSE fields[1] \o <<Tab>> \o JoinFields(Tail(fields))

\* the lines git diff --numstat can print for a file, and lines of two and
\* of four columns
NumstatLines ==
    { <<i, d, p>> : i \in CountFields, d \in CountFields, p \in PathFields }
    \cup { << <<"3">>, <<"1">> >>, << <<"3">>, <<"-">>, <<"f">>, <<"b">> >> }

\* the text of those lines, the columns of each joined by tabs and each
\* line ended by a newline
RECURSIVE NumstatText(_)
NumstatText(ls) ==
    IF ls = << >> THEN << >>
    ELSE JoinFields(Head(ls)) \o <<Newline>> \o NumstatText(Tail(ls))

\* `git diff --numstat` has run in some worktree
InitDiff ==
    /\ Fresh
    /\ \E k \in 0..MaxLines : \E ls \in [1..k -> NumstatLines] :
       \E success \in BOOLEAN :
          last = Cmd("numstat",
                     [success |-> success, lines |-> ls,
                      stats |-> DiffStats_default], FALSE, "Ok")

\* get_diff_stats on that output
DiffStats ==
    /\ last.op = "numstat"
    /\ last' = Cmd("get_diff_stats",
                   [last.arg EXCEPT !.stats =
                      get_diff_stats(last.arg.success,
                                     NumstatText(last.arg.lines))],
                   FALSE, "Ok")
    /\ UNCHANGED <<fsVars, tmuxVars, storeVars, envVars>>
    /\ Quiet

NextDiff == DiffStats

\* the branches create_worktree is asked for
AskedBranches == { <<"x">>, <<"b">>, <<"origin/", "x">> }

\* a repository with some local branches, some branches on origin, a base
\* branch that resolves or not, and a branch asked for
InitBranch ==
    /\ Fresh
    /\ \E branch \in AskedBranches, heads \in SUBSET { <<"x">>, <<"b">> },
          remotes \in SUBSET { <<"x">> }, refs \in {RepoRefs, {}},
          auto \in BOOLEAN :
          last = Cmd("repo",
                     [branch |-> branch,
                      before |-> [heads |-> heads, remotes |-> remotes,
                                  refs |-> refs, autoSetupRemote |-> auto],
                      after |-> [heads |-> heads, remotes |-> remotes,
                                 refs |-> refs, autoSetupRemote |-> auto],
                      on |-> NoBranch, resolved |-> FALSE],
                     FALSE, "Ok")

\* create_worktree(path, branch, base) for a path that is free
CreateIn ==
    /\ last.op = "repo"
    /\ LET r == create_worktree_in(last.arg.before, last.arg.branch)
       IN  last' = Cmd("create_worktree",
                       [last.arg EXCEPT !.after = r.repo, !.on = r.on,
                                        !.resolved = r.resolved],
                       FALSE, r.res)
    /\ UNCHANGED <<fsVars, tmuxVars, storeVars, envVars>>
    /\ Quiet

NextBranch == CreateIn

SpecBranch == InitBranch /\ [][NextBranch]_vars

\* a git subprocess of one of the operations has ended
InitShell ==
    /\ Fresh
    /\ \E op \in ShellOps, success \in BOOLEAN, stderr \in StderrTexts :
          last = Cmd("git", [op |-> op, success |-> success,
                             stderr |-> stderr, ok |-> TRUE, text |-> << >>],
                     FALSE, "running")

\* the operation returns
ShellOut ==
    /\ last.op = "git"
    /\ LET r == on_exit(last.arg.op, last.arg.success, last.arg.stderr)
       IN  last' = Cmd("returned",
                       [last.arg EXCEPT !.ok = r.ok, !.text = r.text],
                       FALSE, r.kind)
    /\ UNCHANGED <<fsVars, tmuxVars, storeVars, envVars>>
    /\ Quiet

NextShell == ShellOut

SpecShell == InitShell /\ [][NextShell]_vars

SpecDiff == InitDiff /\ [][NextDiff]_vars

SpecStart == InitStart /\ [][NextStart]_vars

\* the worktree commands on names nested two directories deep
NextDeep ==
    \/ \E n \in DeepNames : Create(n, n)
    \/ \E n \in DeepNames : Mkdir(n)
    \/ \E n \in DeepNames, force \in BOOLEAN : Remove(n, force)
    \/ \E n \in DeepNames, force \in BOOLEAN : WorktreeRemove(n, force)
    \/ \E cwd \in DeepNames, force \in BOOLEAN : Exit(cwd, force)
    \/ \E n \in DeepNames : Touch(n)

SpecDeep == Init /\ [][NextDeep]_vars

\* workers spawned, at work in their worktrees, and merged
NextMerge ==
    \/ \E n \in WorkerNames : Spawn(n, 4)
    \/ \E n \in WorkerNames : Touch(n)
    \/ \E n \in WorkerNames : Commit(n)
    \/ \E n \in WorkerNames : DeleteDir(n)
    \/ \E n \in WorkerNames, merges \in BOOLEAN : Merge(n, merges)

SpecMerge == Init /\ [][NextMerge]_vars

\* patterns given to the hierarchical `wt remove`
HierPatterns == WtNames \cup { <<"*">>, <<".", "*">> }

NextHier ==
    \/ \E n \in WtNames, parent \in WtNames \cup {NoParent},
          clean \in BOOLEAN : HierSpawn(n, parent, clean)
    \/ \E pattern \in HierPatterns, force, recursive \in BOOLEAN :
          \E confirm \in IF force THEN {TRUE} ELSE BOOLEAN :
              HierRemove(pattern, force, recursive, confirm)

\* the hierarchical spawn and remove, run one after another in any order
SpecHier == Init /\ [][NextHier]_vars

\* spawn, kill and remove of src/src/commands, run one after another
NextTask ==
    \/ \E n \in WtNames, clean \in BOOLEAN : HierSpawn(n, NoParent, clean)
    \/ \E n \in WtNames : HierKill(n)
    \/ \E n \in WtNames, force \in BOOLEAN :
          HierRemove(n, force, FALSE, TRUE)

SpecTask == Init /\ [][NextTask]_vars

\* spawn, kill and merge, a merge possibly cut short
NextArchive ==
    \/ \E n \in WorkerNames : Spawn(n, 4)
    \/ \E n \in WorkerNames : Kill(n)
    \/ \E n \in WorkerNames, merges \in BOOLEAN : Merge(n, merges)
    \/ \E n \in WorkerNames : MergeInterrupted(n)

SpecArchive == Init /\ [][NextArchive]_vars

\* every state of tmux since the call began has been noted
Noted == call.pc \in {"idle", "done"} \/ call.at = World.tm

\* a status query running its probes one by one while panes exit and
\* windows and the session are closed
NextRace ==
    \/ \E n \in IF call.pc = "idle" THEN WorkerNames ELSE {} : Spawn(n, 4)
    \/ \E n \in WorkerNames : StatusBegin(n)
    \/ StatusProbe
    \/ Observe
    \/ \E n \in IF Noted THEN WorkerNames ELSE {} : PaneExit(n)
    \/ \E n \in IF Noted THEN WorkerNames ELSE {}, k \in {"run", "idle"} :
          CloseWindow(n, k)
    \/ \E i \in IF Noted THEN {1} ELSE {} : CloseSession

SpecRace == Init /\ [][NextRace]_vars

\* spawn, possibly cut short after any of its steps, and kill
NextOrder ==
    \/ \E n \in WorkerNames, steps \in 1..4 : Spawn(n, steps)
    \/ \E n \in WorkerNames : Kill(n)
    \/ \E n \in WorkerNames : PaneExit(n)

SpecOrder == Init /\ [][NextOrder]_vars

\* spawn with tmux subprocesses that may fail, kill, and the session closed
NextTmuxFault ==
    \/ \E n \in WorkerNames, fault \in TmuxFaults : SpawnFaulty(n, fault)
    \/ \E n \in WorkerNames : Kill(n)
    \/ \E n \in WorkerNames : PaneExit(n)
    \/ CloseSession

SpecTmuxFault == Init /\ [][NextTmuxFault]_vars

\* the operations that write a worker's record, as time passes
NextClock ==
    \/ \E n \in {<<"a">>} : Spawn(n, 4)
    \/ \E n \in {<<"a">>} : SpawnKill(n)
    \/ \E n \in {<<"a">>} : Unregister(n)
    \/ \E id \in 1..MaxWorkers, status \in {"Running", "Archived"} :
          SetStatus(id, status)
    \/ \E id \in 1..MaxWorkers : SetTask(id)
    \/ Tick

SpecClock == Init /\ [][NextClock]_vars

\* create with an on-create hook configured or not, and remove
NextHook ==
    \/ \E n \in WtNames, no_hooks \in BOOLEAN, hook \in Hooks :
          \E b \in BranchNames \cap {n, <<"x">>} :
              CreateHooks(n, b, no_hooks, hook)
    \/ \E n \in WtNames, force \in BOOLEAN : Remove(n, force)

SpecHook == Init /\ [][NextHook]_vars

\* the commands that make, end and remove a worker's worktree, with nothing
\* changed outside the tool
NextPath ==
    \/ \E n \in WorkerNames : Spawn(n, 4)
    \/ \E n \in WorkerNames : Kill(n)
    \/ \E n \in WorkerNames, merges \in BOOLEAN : Merge(n, merges)
    \/ \E n \in WorkerNames, force \in BOOLEAN : Remove(n, force)
    \/ \E cwd \in WorkerNames, force \in BOOLEAN : Exit(cwd, force)

SpecPath == Init /\ [][NextPath]_vars

\* spawn, kill and attach, while windows and the session are closed by hand
NextAttach ==
    \/ \E n \in WorkerNames : Spawn(n, 4)
    \/ \E n \in WorkerNames : Kill(n)
    \/ \E name \in WorkerNames \cup {NoName} : Attach(name)
    \/ \E n \in WorkerNames, k \in {"run", "idle"} : CloseWindow(n, k)
    \/ CloseSession

SpecAttach == Init /\ [][NextAttach]_vars

\* spawn, kill and ps while the repository's directory is renamed
NextRename ==
    \/ \E n \in WorkerNames : Spawn(n, 4)
    \/ \E n \in WorkerNames : Kill(n)
    \/ \E o \in Oracles(World) : Ps(o)
    \/ \E d \in RepoDirs : RenameRepo(d)

SpecRename == Init /\ [][NextRename]_vars

\* two processes, each running register once, their steps interleaved
NextProc ==
    \/ \E p \in Procs, n \in WorkerNames : RegLoad(p, n)
    \/ \E p \in Procs : SaveCreate(p)
    \/ \E p \in Procs : SaveWrite(p)
    \/ \E p \in Procs, k \in 0..(MaxWorkers + 2) : Crash(p, k)

SpecProc == Init /\ [][NextProc]_vars

\* what `wt list` shows
Listed == SeqToSet(list_worktree_names(FS))

RemovalOps == {"remove", "Worktree::remove", "exit"}

\* C1: a removal (wt remove <n>, Worktree::remove, wt exit inside n) of a
\* worktree n that has uncommitted changes ends, without --force, in
\* UncommittedChanges with nothing on disk changed and n still listed if it
\* was; with --force it ends Ok and n is neither on disk nor listed.
C1_DirtyRemovalNeedsForce ==
    [][\A n \in WtNames :
          ( /\ n \in dirty
            /\ last'.op \in RemovalOps
            /\ last'.arg = n )
          => IF last'.force
             THEN /\ last'.res = "Ok"
                  /\ n \notin dirs'
                  /\ n \notin Listed'
             ELSE /\ last'.res = "UncommittedChanges"
                  /\ UNCHANGED fsVars
                  /\ n \in dirs'
                  /\ (n \in Listed => n \in Listed')]_vars

\* C1 witness: wt exit without --force has just been refused in a dirty,
\* listed worktree, which is still there.
C1_Witness ==
    /\ last.op = "exit"
    /\ ~last.force
    /\ last.res = "UncommittedChanges"
    /\ last.arg \in dirty
    /\ last.arg \in Listed

\* the names a pattern selects that have uncommitted changes
DirtyMatches(fs, pat) ==
    { i \in 1..Len(Matching(fs, pat)) : Matching(fs, pat)[i] \in fs.dirty }

\* C2: wt remove without --force on a pattern that matches several
\* worktrees, at least one of them with uncommitted changes, reports the
\* check failure and removes nothing: the listing is the same afterwards.
C2_CheckFailureRemovesNothing ==
    [][( /\ last'.op = "remove"
         /\ ~last'.force
         /\ Len(Matching(FS, last'.arg)) > 1
         /\ DirtyMatches(FS, last'.arg) # {} )
       => /\ last'.res = "UncommittedChanges"
          /\ Listed' = Listed]_vars

\* the worker records the state file holds (none if it is absent or does
\* not parse)
Workers(file) == load(file).st.workers

\* C3: no step changes the persisted status of a worker whose persisted
\* status is terminal (Merged, Failed or Archived).
C3_NoTransitionLeavesTerminal ==
    [][\A id \in DOMAIN Workers(stateFile) \cap DOMAIN Workers(stateFile') :
          is_terminal(Workers(stateFile)[id])
          => Workers(stateFile')[id].status = Workers(stateFile)[id].status]_vars

\* the active workers recorded under name n
ActiveNamed(n) ==
    { id \in active_workers(load(stateFile).st) :
        Workers(stateFile)[id].name = n }

\* C4: in every reachable state the state file records at most one active
\* worker per name.
C4_OneActiveWorkerPerName ==
    \A n \in WorkerNames : Cardinality(ActiveNamed(n)) <= 1

\* what a process found in the file: its in-memory state less its own worker
Snapshot(p) ==
    [id \in DOMAIN procs[p].st.workers \ {procs[p].id} |->
        procs[p].st.workers[id]]

\* C5: when two concurrent invocations of register have loaded the same
\* snapshot and both have returned Ok, the state file is the document of one
\* of them alone (last writer wins): the other's worker is not in it.
C5_LastWriterWins ==
    \A p, q \in Procs :
        ( /\ p # q
          /\ procs[p].pc = "done"
          /\ procs[q].pc = "done"
          /\ Snapshot(p) = Snapshot(q) )
        => /\ load(stateFile).ok
           /\ load(stateFile).some
           /\ load(stateFile).st \in {procs[p].st, procs[q].st}

\* C5 witness: two concurrent spawns of different names have both returned
\* Ok and the state file records one worker only.
C5_Witness ==
    /\ procs["p1"].pc = "done"
    /\ procs["p2"].pc = "done"
    /\ procs["p1"].n # procs["p2"].n
    /\ Snapshot("p1") = Snapshot("p2")
    /\ load(stateFile).some
    /\ Cardinality(DOMAIN Workers(stateFile)) = 1

\* C6: when a process crashes inside save, no other save being under way,
\* and the file was a valid document when that save began, the file is
\* afterwards that previous document or the complete new one, and loads.
C6_CrashKeepsValidFile ==
    [][\A p \in Procs :
          ( /\ procs[p].pc = "created"
            /\ procs'[p].pc = "crashed"
            /\ procs[p].prev.exists
            /\ WellFormed(procs[p].prev.bytes)
            /\ \A q \in Procs \ {p} : procs[q].pc # "created" )
          => /\ load(stateFile').ok
             /\ load(stateFile').some
             /\ stateFile'.bytes \in
                  {procs[p].prev.bytes, Serialize(procs[p].st)}]_vars

\* the operations that update a worker's record
UpdateOps == {"kill", "spawn::kill", "unregister", "set_status", "merge"}

\* the entries of a task list that carry name n
EntriesNamed(ts, n) == { i \in 1..Len(ts) : ts[i].name = n }

\* C7: wt ps changes neither the state file nor anything else; when the
\* state file loads and the session exists it reports every worker without
\* a window as no-window; and the persisted status of a worker changes only
\* in a step of kill, unregister, set_status or merge.
C7_ReconciliationReadOnly ==
    [][/\ last'.op = "ps"
          => /\ stateFile' = stateFile
             /\ UNCHANGED <<fsVars, tmuxVars>>
       /\ ( /\ last'.op = "ps"
            /\ load(stateFile).some
            /\ session )
          => \A id \in DOMAIN Workers(stateFile) :
                LET n == Workers(stateFile)[id].name
                IN  win[n] = NoWin
                    => /\ EntriesNamed(tasks', n) # {}
                       /\ \A i \in EntriesNamed(tasks', n) :
                             tasks'[i].status = "no-window"
       /\ \A id \in DOMAIN Workers(stateFile) \cap DOMAIN Workers(stateFile') :
             Workers(stateFile')[id].status # Workers(stateFile)[id].status
             => last'.op \in UpdateOps]_vars

\* C7 witness: wt ps has just reported no-window for a worker whose window
\* was closed by hand and whose record still says Spawned.
C7_Witness ==
    /\ last.op = "ps"
    /\ session
    /\ \E id \in DOMAIN Workers(stateFile) :
          /\ Workers(stateFile)[id].status = "Spawned"
          /\ win[Workers(stateFile)[id].name] = NoWin
          /\ \E i \in 1..Len(tasks) :
                /\ tasks[i].name = Workers(stateFile)[id].name
                /\ tasks[i].status = "no-window"

\* the display status the table gives for (session exists, window exists,
\* pane running)
DisplayStatus(sessionExists, windowExists, paneRunning) ==
    IF ~sessionExists THEN "no-session"
    ELSE IF ~windowExists THEN "no-window"
    ELSE IF paneRunning THEN "running"
    ELSE "exited"

C9_FallbackWithoutStateFile ==
    [][( /\ last'.op = "ps"
         /\ ~stateFile.exists )
       => /\ last'.res = "Ok"
          /\ load(stateFile).ok
          /\ ~load(stateFile).some
          /\ ~session => tasks' = << >>
          /\ \A n \in WorkerNames :
                Cardinality(EntriesNamed(tasks', n)) =
                   IF session /\ n \in dirs THEN WinCount(World.tm, n) ELSE 0
          /\ \A i \in 1..Len(tasks') :
                /\ tasks'[i].name \in WorkerNames
                /\ tasks'[i].status \in {"running", "exited"}
                /\ win[tasks'[i].name] = [run |-> 1, idle |-> 0]
                   => tasks'[i].status = "running"
                /\ win[tasks'[i].name] = [run |-> 0, idle |-> 1]
                   => tasks'[i].status = "exited"]_vars

\* C9 witness: wt ps has just run without a state file and listed one
\* window, leaving out another whose directory is gone.
C9_Witness ==
    /\ last.op = "ps"
    /\ last.res = "Ok"
    /\ ~stateFile.exists
    /\ Len(tasks) = 1
    /\ \E n \in WorkerNames : WinCount(World.tm, n) > 0 /\ n \notin dirs

\* the workers recorded under name n
WorkersNamed(n) ==
    { id \in DOMAIN Workers(stateFile) : Workers(stateFile)[id].name = n }

\* C10: when the state file loads, wt ps ends Ok with one entry per worker
\* in it; a worker whose directory is gone or whose `git log` fails is
\* reported 0 commits ahead, one whose directory is gone or whose
\* `git status` fails is reported not dirty, and the others are reported
\* with what git says.
C10_ProbeFailureStillReports ==
    [][( /\ last'.op = "ps"
         /\ load(stateFile).some )
       => /\ last'.res = "Ok"
          /\ Len(tasks') = Cardinality(DOMAIN Workers(stateFile))
          /\ \A n \in WorkerNames :
                Cardinality(EntriesNamed(tasks', n)) =
                   Cardinality(WorkersNamed(n))
          /\ \A i \in 1..Len(tasks') :
                LET n == tasks'[i].name
                IN  /\ (n \notin dirs \/ n \in last'.arg.logFails)
                       => tasks'[i].commits_ahead = 0
                    /\ (n \notin dirs \/ n \in last'.arg.statusFails)
                       => tasks'[i].is_dirty = FALSE
                    /\ (n \in dirs /\ n \notin last'.arg.logFails)
                       => tasks'[i].commits_ahead = ahead[n]
                    /\ (n \in dirs /\ n \notin last'.arg.statusFails)
                       => tasks'[i].is_dirty = (n \in dirty)]_vars

\* C10 witness: wt ps has just listed two workers, one whose `git log`
\* failed, reported 0 commits ahead though its branch is ahead, and one
\* whose directory was deleted.
C10_Witness ==
    /\ last.op = "ps"
    /\ last.res = "Ok"
    /\ load(stateFile).some
    /\ Len(tasks) = 2
    /\ \E i, j \in 1..Len(tasks) :
          /\ tasks[i].name \in last.arg.logFails
          /\ ahead[tasks[i].name] > 0
          /\ tasks[i].commits_ahead = 0
          /\ tasks[j].name \notin dirs
          /\ tasks[j].commits_ahead = 0
          /\ tasks[j].is_dirty = FALSE

\* a tmux probe of the status query for name n failed: has-session or
\* list-windows, or list-panes when the query got as far as running it
ProbeFailed(o, n) ==
    \/ o.fault[n] # "none"
    \/ /\ session
       /\ WinCount(World.tm, n) > 0
       /\ o.cmd[n] \in {"", SpawnErr}

\* C11: when a tmux probe made for a worker fails (has-session,
\* list-windows or list-panes not run or exiting non-zero), wt ps still
\* reports the worker, with live status no-session.
C11_FailedProbeReportsNoSession ==
    [][( /\ last'.op = "ps"
         /\ load(stateFile).some )
       => /\ last'.res = "Ok"
          /\ Len(tasks') = Cardinality(DOMAIN Workers(stateFile))
          /\ \A i \in 1..Len(tasks') :
                ProbeFailed(last'.arg, tasks'[i].name)
                => tasks'[i].status = "no-session"]_vars

\* how often name n is in the listing
TimesListed(n) ==
    LET l == list_worktree_names(FS)
    IN  Cardinality({ i \in 1..Len(l) : l[i] = n })

\* C12: after a successful wt create of N the listing has N exactly once;
\* after a successful wt remove of N the listing does not have N, and N
\* comes into the listing only by a create of N.
C12_ListingFollowsCreateAndRemove ==
    [][\A n \in WtNames :
         /\ ( last'.op = "create" /\ last'.arg = n /\ last'.res = "Ok" )
            => TimesListed(n)' = 1
         /\ ( last'.op = "remove" /\ last'.arg = n /\ last'.res = "Ok" )
            => TimesListed(n)' = 0
         /\ ( TimesListed(n) = 0 /\ TimesListed(n)' > 0 )
            => ( last'.op = "create" /\ last'.arg = n )]_vars

\* C13: wt create of a name whose path exists ends in WorktreeExists and
\* changes nothing: no branch, no directory, the exclude file and the
\* listing as before.
C13_CreateOnExistingPathChangesNothing ==
    [][\A n \in WtNames :
         ( last'.op = "create" /\ last'.arg = n /\ n \in dirs )
         => /\ last'.res = "WorktreeExists"
            /\ branches' = branches
            /\ dirs' = dirs
            /\ excluded' = excluded
            /\ list_worktree_names(FS)' = list_worktree_names(FS)
            /\ UNCHANGED <<marked, checkedOut>>]_vars

\* a create refused for a hand-made directory, in a repository whose exclude
\* file was never written and that has no branch
C13_Witness ==
    /\ last.op = "create"
    /\ last.res = "WorktreeExists"
    /\ last.arg \in dirs \ marked
    /\ ~excluded
    /\ branches = {}

\* the first of the candidates that verifies, 0 if none does
FirstVerified(cands, refs) ==
    IF \A i \in 1..Len(cands) : cands[i] \notin refs THEN 0
    ELSE CHOOSE i \in 1..Len(cands) :
             /\ cands[i] \in refs
             /\ \A j \in 1..(i - 1) : cands[j] \notin refs

\* the result is the first candidate that verifies, by name if it is one of
\* the `named` first candidates and as a commit id otherwise, and
\* BranchNotFound if none verifies
ResolvesInOrder(cands, named) ==
    last.op = "find_valid_start_point"
    => LET i == FirstVerified(cands, last.arg.refs)
       IN  IF i = 0 THEN ~last.res.ok /\ last.res.kind = "BranchNotFound"
           ELSE /\ last.res.ok
                /\ last.res.rev = cands[i]
                /\ last.res.kind = IF i <= named THEN "name" ELSE "sha"

\* the candidates as stated: base, origin/base unless base has the prefix,
\* refs/heads/base, refs/remotes/origin/base, HEAD
StatedCandidates(base) ==
    <<base>>
    \o (IF starts_with_origin(base) THEN << >> ELSE << <<"origin/">> \o base >>)
    \o << <<"refs/heads/">> \o base,
          <<"refs/remotes/", "origin/">> \o base,
          <<"HEAD">> >>

\* the same with the remote ref of a base that has the origin/ prefix being
\* refs/remotes/base
RemoteAwareCandidates(base) ==
    <<base>>
    \o (IF starts_with_origin(base) THEN << >> ELSE << <<"origin/">> \o base >>)
    \o << <<"refs/heads/">> \o base,
          IF starts_with_origin(base) THEN <<"refs/remotes/">> \o base
          ELSE <<"refs/remotes/", "origin/">> \o base,
          <<"HEAD">> >>

\* how many of the candidates are returned by name
NamedFirst(base) == IF starts_with_origin(base) THEN 1 ELSE 2

\* C14 as stated: the start point is the first that verifies of base,
\* origin/base (base without the origin/ prefix), refs/heads/base,
\* refs/remotes/origin/base, HEAD; BranchNotFound only if none verifies.
C14_StartPointOrderAsStated ==
    last.op = "find_valid_start_point"
    => ResolvesInOrder(StatedCandidates(last.arg.base),
                       NamedFirst(last.arg.base))

\* C14, amended: the same, the fourth candidate of a base that has the
\* origin/ prefix being refs/remotes/base.
C14_StartPointOrder ==
    last.op = "find_valid_start_point"
    => ResolvesInOrder(RemoteAwareCandidates(last.arg.base),
                       NamedFirst(last.arg.base))

\* a base that does not exist, resolved by falling back to HEAD
C14_Witness ==
    /\ last.op = "find_valid_start_point"
    /\ last.arg.refs = { <<"HEAD">> }
    /\ last.res.ok
    /\ last.res.rev = <<"HEAD">>

\* the worktrees on disk whose last spawn named p as the parent
SpawnedUnder(p) ==
    { c \in marked : c \in DOMAIN wtState /\ wtState[c].parent = p }

\* C15: after wt remove --recursive of a worktree p that ends Ok, no
\* worktree that was spawned with --parent p is left.
C15_RecursiveRemoveTakesChildren ==
    [][\A p \in WtNames :
         ( /\ last'.op = "remove --recursive"
           /\ last'.arg = p
           /\ last'.res = "Ok"
           /\ p \in marked )
         => SpawnedUnder(p) \cap marked' = {}]_vars

\* directory d holds nothing: no directory and no .git file
EmptyDir(d) == ChildDirs(FS, d) = {} /\ d \notin marked

\* C16: after the removal of a nested worktree n none of its ancestor
\* directories below the worktrees root is left empty, and nothing is
\* deleted but n, what was in n, and ancestors of n that held nothing else.
C16_EmptyAncestorsRemoved ==
    [][\A n \in AllNames :
         ( /\ last'.op \in RemovalOps
           /\ last'.arg = n
           /\ last'.res = "Ok" )
         => /\ \A d \in AncestorDirs(n) \cap dirs' : ~EmptyDir(d)'
            /\ \A d \in dirs \ dirs' :
                  \/ d = n
                  \/ IsBelow(d, n)
                  \/ /\ d \in AncestorDirs(n) \ marked
                     /\ \A c \in dirs : IsBelow(c, d) => c \notin dirs']_vars

\* a worktree two directories deep removed, both directories above it gone
\* with it
C16_Witness ==
    /\ last.op \in RemovalOps
    /\ last.res = "Ok"
    /\ Len(last.arg) = 5
    /\ AncestorDirs(last.arg) \cap dirs = {}

\* the whole of s matches pat, `*` standing for any run of characters, `?`
\* for one character and any other character for itself
RECURSIVE WholeNameMatches(_, _)
WholeNameMatches(pat, s) ==
    IF pat = << >> THEN s = << >>
    ELSE IF Head(pat) = "*"
         THEN \E k \in 0..Len(s) :
                  WholeNameMatches(Tail(pat), SubSeq(s, k + 1, Len(s)))
    ELSE /\ s # << >>
         /\ Head(pat) = "?" \/ Head(pat) = Head(s)
         /\ WholeNameMatches(Tail(pat), Tail(s))

\* C17: wt remove with a pattern that has `*` or `?`, ending Ok, removes of
\* the listed worktrees exactly those whose whole name matches the pattern,
\* a character other than `*` and `?` matching itself only.
C17_PatternRemovesExactlyTheMatches ==
    [][( /\ last'.op = "remove"
         /\ contains_glob(last'.arg)
         /\ last'.res = "Ok" )
       => \A n \in Listed :
             n \notin marked' <=> \E pat \in HierPatterns :
                                    pat = last'.arg /\ WholeNameMatches(pat, n)
      ]_vars

\* C18: wt remove with an argument that matches no listed worktree: if it
\* is the path of a worktree it is not refused as unknown, and when it ends
\* Ok that worktree and no other is removed; if it is not, the command ends
\* in WorktreeNotFound and nothing is removed.
C18_UnmatchedArgumentExactPathOrNotFound ==
    [][\A pat \in Patterns :
         ( /\ last'.op = "remove"
           /\ last'.arg = pat
           /\ Matching(FS, pat) = << >> )
         => IF pat \in marked
            THEN /\ last'.res # "WorktreeNotFound"
                 /\ last'.res = "Ok" => marked \ marked' = {pat}
            ELSE /\ last'.res = "WorktreeNotFound"
                 /\ UNCHANGED fsVars]_vars

\* the worktrees a removal command names: the current one for wt exit, the
\* ones the pattern matches or equals for wt remove
Target(op, arg) ==
    IF op = "remove"
    THEN { n \in WtNames : WholeNameMatches(arg, n) \/ n = arg }
    ELSE {arg}

\* C19: wt remove <pattern> and wt exit leave every worktree they do not
\* name on disk, and listed if it was.
C19_OtherWorktreesUntouched ==
    [][\A op \in {"remove", "exit"}, arg \in Patterns \cup {Root} :
         ( last'.op = op /\ last'.arg = arg )
         => \A n \in marked \ Target(op, arg) :
               /\ n \in marked'
               /\ n \in Listed => n \in Listed']_vars

\* C20: wt merge that ends in WorktreeNotFound, in UncommittedChanges or in
\* the error of `git merge` leaves the state file, and so every worker's
\* status, and the tmux windows as they were; with UncommittedChanges
\* nothing was merged either.
C20_FailedMergeKeepsWorker ==
    [][( /\ last'.op = "merge"
         /\ last'.res \in {"WorktreeNotFound", "UncommittedChanges", "Git"} )
       => /\ stateFile' = stateFile
          /\ Workers(stateFile') = Workers(stateFile)
          /\ UNCHANGED tmuxVars
          /\ last'.res = "UncommittedChanges" => UNCHANGED fsVars]_vars

\* a merge refused by git for a worker that is still registered as active
\* and whose window is still open
C20_Witness ==
    /\ last.op = "merge"
    /\ last.res = "Git"
    /\ last.arg \in dirs
    /\ WinCount(World.tm, last.arg) > 0
    /\ \E id \in DOMAIN Workers(stateFile) :
          /\ Workers(stateFile)[id].name = last.arg
          /\ is_active(Workers(stateFile)[id])

\* C21: after wt merge ends Ok every worker of that name has the persisted
\* status Merged, and a step leaves a worker with the status Merged only if
\* it is a merge of that worker's name that ended Ok.
C21_MergeEndsInMerged ==
    [][/\ \A n \in WorkerNames :
            ( last'.op = "merge" /\ last'.arg = n /\ last'.res = "Ok" )
            => \A id \in WorkersNamed(n)' :
                  Workers(stateFile')[id].status = "Merged"
       /\ \A id \in DOMAIN Workers(stateFile') :
            ( /\ Workers(stateFile')[id].status = "Merged"
              /\ ( id \notin DOMAIN Workers(stateFile)
                   \/ Workers(stateFile)[id].status # "Merged" ) )
            => /\ last'.op = "merge"
               /\ last'.res = "Ok"
               /\ last'.arg = Workers(stateFile')[id].name]_vars

\* the edges of the worker status machine: the happy path one stage at a
\* time, Failed from any non-terminal status, Archived from any status
AllowedEdge(from, to) ==
    \/ <<from, to>> \in { <<"Spawned", "Running">>,
                          <<"Running", "WaitingReview">>,
                          <<"WaitingReview", "Approved">>,
                          <<"Approved", "Merged">> }
    \/ ( to = "Failed" /\ from \notin {"Merged", "Failed", "Archived"} )
    \/ to = "Archived"

\* C22: every change of a worker's persisted status follows an allowed
\* edge: no step moves a worker backward along the happy path or skips a
\* stage of it.
C22_StatusChangesFollowEdges ==
    [][\A id \in DOMAIN Workers(stateFile) \cap DOMAIN Workers(stateFile') :
          Workers(stateFile')[id].status # Workers(stateFile)[id].status
          => AllowedEdge(Workers(stateFile)[id].status,
                         Workers(stateFile')[id].status)]_vars

\* C23: no step takes a record out of the store: the ids of the workers map
\* of the state file, and the tasks of the spawn state, only grow.
C23_RecordsNeverDeleted ==
    [][/\ DOMAIN Workers(stateFile) \subseteq DOMAIN Workers(stateFile')
       /\ spawnState \subseteq spawnState']_vars

\* the tmux session of that name
TmuxOf(name) ==
    IF name = get_session_name(OrigDir)
    THEN [session |-> session, win |-> win]
    ELSE moved

\* the session name the state file holds
PersistedSession == load(stateFile).st.tmux_session

\* C24: once a state file holds the session name, spawn and kill act on the
\* session of that name and on no other, ps reports the windows of that
\* session, and every worker record is bound to the session name of the
\* state it is in, whatever the repository's directory is called by then.
C24_SessionNameDerivedOnce ==
    [][( load(stateFile).ok /\ load(stateFile).some )
       => /\ last'.op \in {"spawn", "kill"}
             => \A d \in RepoDirs :
                   get_session_name(d) # PersistedSession
                   => TmuxOf(get_session_name(d))' = TmuxOf(get_session_name(d))
          /\ \A o \in Oracles(World) :
                ( last'.op = "ps" /\ last'.arg = o )
                => tasks' = list_tasks(
                       [World EXCEPT !.tm = TmuxOf(PersistedSession)], o).tasks
          /\ \A f \in {stateFile', stray'} : \A id \in DOMAIN Workers(f) :
                Workers(f)[id].tmux_session = load(f).st.tmux_session]_vars

\* C25: wt kill of a name with no window and no record ends Ok and changes
\* nothing, and wt kill of the name just killed ends Ok and leaves tmux and
\* the persisted state as the first kill left them.
C25_KillIsIdempotent ==
    [][\A n \in WindowNames :
         ( last'.op = "kill" /\ last'.arg = n )
         => /\ ( /\ ~window_exists(Hier.tm, n)
                 /\ by_name(load(stateFile).st, n) = {}
                 /\ n \notin spawnState )
               => /\ last'.res = "Ok"
                  /\ UNCHANGED <<tmuxVars, stateFile, spawnState>>
            /\ ( last.op = "kill" /\ last.arg = n /\ last.res = "Ok" )
               => /\ last'.res = "Ok"
                  /\ UNCHANGED <<tmuxVars, stateFile, spawnState>>]_vars

\* C26: wt attach without the session ends in TmuxSessionNotFound, with or
\* without a window name, having selected no window and not attached; with
\* the session but no window of the name given it fails without attaching.
C26_AttachNeedsSessionAndWindow ==
    [][last'.op = "attach"
       => /\ ~session_exists(World.tm)
             => /\ last'.res = "TmuxSessionNotFound"
                /\ ~last'.arg.selected
                /\ ~last'.arg.attached
          /\ ( /\ session_exists(World.tm)
               /\ last'.arg.name # NoName
               /\ WinCount(World.tm, last'.arg.name) = 0 )
             => /\ last'.res # "Ok"
                /\ ~last'.arg.attached]_vars

\* C27: the worktree directory of every active worker of the state file
\* exists.
C27_ActiveWorkerHasWorktree ==
    \A id \in active_workers(load(stateFile).st) :
        Workers(stateFile)[id].name \in dirs

\* the number a count column stands for: its decimal value, and zero for a
\* column that is not a number
RECURSIVE Decimal(_)
Decimal(f) ==
    IF f = << >> THEN 0
    ELSE 10 * Decimal(SubSeq(f, 1, Len(f) - 1)) + DigitValue(f[Len(f)])

CountValue(f) ==
    IF f # << >> /\ \A i \in 1..Len(f) : f[i] \in DecimalDigits
    THEN Decimal(f) ELSE 0

\* the lines of at least three columns, in their order
Counted(ls) == SelectSeq(ls, LAMBDA l : Len(l) >= 3)

\* the sum of v[1] .. v[Len(v)]
RECURSIVE SumSeq(_)
SumSeq(v) == IF v = << >> THEN 0 ELSE Head(v) + SumSeq(Tail(v))

\* C28: get_diff_stats of a numstat text has one per-file entry for each
\* line of at least three columns, in order, with the path and the two
\* counts of that line, a column that is not a number counting as zero;
\* files_changed is the number of entries and each total is the sum of the
\* entries' values. When git failed the result is empty.
C28_DiffStatsCountsEveryLine ==
    last.op = "get_diff_stats"
    => LET stats == last.arg.stats
           ls == IF last.arg.success THEN Counted(last.arg.lines) ELSE << >>
       IN  /\ Len(stats.files) = Len(ls)
           /\ \A i \in 1..Len(ls) :
                 stats.files[i] = [path |-> ls[i][3],
                                   insertions |-> CountValue(ls[i][1]),
                                   deletions |-> CountValue(ls[i][2])]
           /\ stats.files_changed = Len(stats.files)
           /\ stats.insertions =
                 SumSeq([i \in 1..Len(ls) |-> stats.files[i].insertions])
           /\ stats.deletions =
                 SumSeq([i \in 1..Len(ls) |-> stats.files[i].deletions])

\* the lines 3,1,f and -,-,b have given files_changed 2, insertions 3 and
\* deletions 1
C28_Witness ==
    /\ last.op = "get_diff_stats"
    /\ last.arg.success
    /\ last.arg.lines = << << <<"3">>, <<"1">>, <<"f">> >>,
                           << <<"-">>, <<"-">>, <<"b">> >> >>
    /\ last.arg.stats.files_changed = 2
    /\ last.arg.stats.insertions = 3
    /\ last.arg.stats.deletions = 1
    /\ Len(last.arg.stats.files) = 2

\* C29: wt create whose on-create hook has run and exited non-zero ends Ok
\* with the worktree on disk and in the listing, and wt create --no-hooks
\* never runs the hook.
C29_FailingHookKeepsWorktree ==
    [][\A n \in WtNames :
         ( last'.op = "create" /\ last'.arg.name = n )
         => /\ ( last'.arg.ran /\ last'.arg.hook.fails )
               => /\ last'.res = "Ok"
                  /\ n \in dirs'
                  /\ n \in marked'
                  /\ n \in Listed'
            /\ last'.arg.no_hooks => ~last'.arg.ran]_vars

\* C30: whenever a step of wt kill or wt merge leaves a worker Archived
\* that was not Archived before, no window named after the worker is left in
\* the session: the window goes before the status is written, and while it
\* cannot be killed the status stays as it was.
C30_ArchivedOnlyWithoutWindow ==
    [][last'.op \in {"kill", "merge"}
       => \A id \in DOMAIN Workers(stateFile') :
             ( /\ Workers(stateFile')[id].status = "Archived"
               /\ ( id \notin DOMAIN Workers(stateFile)
                    \/ Workers(stateFile)[id].status # "Archived" ) )
             => \/ ~session'
                \/ LET name == Workers(stateFile')[id].name
                   IN  win'[name].run + win'[name].idle = 0]_vars

\* C31: in every step that changes the persisted status or task of a worker,
\* the worker's updated_at becomes the time of the step; and in every state
\* no worker's updated_at is earlier than its created_at, and no step makes
\* a worker's updated_at smaller.
C31_UpdatedAtFollowsMutations ==
    [][\A id \in DOMAIN Workers(stateFile') :
          /\ Workers(stateFile')[id].created_at
               <= Workers(stateFile')[id].updated_at
          /\ id \in DOMAIN Workers(stateFile)
             => /\ Workers(stateFile)[id].updated_at
                     <= Workers(stateFile')[id].updated_at
                /\ ( \/ Workers(stateFile')[id].status
                          # Workers(stateFile)[id].status
                     \/ Workers(stateFile')[id].task
                          # Workers(stateFile)[id].task )
                   => Workers(stateFile')[id].updated_at = clock']_vars

\* C32: whenever wt spawn <n> ends Ok, also when one of its tmux
\* subprocesses (new-session, new-window, send-keys) exits non-zero, a window
\* named n exists in the session afterwards.
C32_SpawnOkImpliesWindow ==
    [][(last'.op = "spawn" /\ last'.res = "Ok")
       => \A n \in WorkerNames :
             last'.arg = n => session' /\ win'[n].run + win'[n].idle > 0]_vars

\* C33: whenever an operation that runs git returns after its subprocess
\* exited non-zero, it returns an error, and the error carries the text the
\* subprocess wrote to standard error.
C33_FailedSubprocessIsAnError ==
    (last.op = "returned" /\ ~last.arg.success)
    => /\ ~last.arg.ok
       /\ last.res # "Ok"
       /\ last.arg.text = last.arg.stderr

\* the branch asked for exists, locally or as a remote-tracked branch
BranchKnown(repo, branch) ==
    \/ branch \in repo.heads
    \/ branch \in repo.remotes
    \/ starts_with_origin(branch) /\ Tail(branch) \in repo.remotes

\* C34: create_worktree for a branch that exists locally or on origin ends
\* Ok with the worktree attached, no branch created, no start point looked
\* for and push.autoSetupRemote as it was; for any other branch, when the
\* base branch resolves, it ends Ok with the branch created, the worktree
\* on it and push.autoSetupRemote set.
C34_AttachOrCreate ==
    last.op = "create_worktree"
    => LET a == last.arg
       IN  IF BranchKnown(a.before, a.branch)
           THEN /\ last.res = "Ok"
                /\ a.on # NoBranch
                /\ a.after = a.before
                /\ ~a.resolved
           ELSE a.before.refs # {}
                => /\ last.res = "Ok"
                   /\ a.on = a.branch
                   /\ a.after.heads = a.before.heads \cup {a.branch}
                   /\ a.resolved
                   /\ a.after.autoSetupRemote

\* the worktrees that are leaves of the walk: directories with the marker
\* of which no directory on the way down from the root has it
LeafWorktrees ==
    { d \in marked : \A anc \in AncestorDirs(d) : anc \notin marked }

\* C35: in every state list_worktree_names returns the marked directories
\* that have no marked ancestor, each once, in ascending lexicographic
\* order; with nothing under the root it returns the empty list.
C35_ListIsSortedLeaves ==
    LET l == list_worktree_names(FS)
    IN  /\ SeqToSet(l) = LeafWorktrees
        /\ \A i, j \in 1..Len(l) : i < j => LexLess(l[i], l[j])
        /\ dirs = {} => l = << >>

\* C35 witness: worktrees a and b, a third worktree nested inside a, and
\* the listing has a and b in order and skips the nested one.
C35_Witness ==
    /\ <<"a">> \in marked
    /\ <<"a", "/", "b">> \in marked
    /\ <<"b">> \in marked
    /\ list_worktree_names(FS) = << <<"a">>, <<"b">> >>

\* C36: when the state file holds an archived worker and an active worker
\* of the same name n, a kill or unregister of n that ends Ok leaves no
\* active worker named n.
C36_ByNameUpdatesActOnActive ==
    [][\A n \in WorkerNames :
         ( /\ last'.op \in {"kill", "spawn::kill", "unregister"}
           /\ last'.arg = n
           /\ last'.res = "Ok"
           /\ ActiveNamed(n) # {}
           /\ \E id \in WorkersNamed(n) :
                 Workers(stateFile)[id].status = "Archived" )
         => ActiveNamed(n)' = {}]_vars

\* what the pattern of a hierarchical remove selects before the expansion
HierMatches(pattern) ==
    IF contains_glob(pattern) THEN match_pattern(FS, pattern)
    ELSE IF core_find(FS, pattern).res = "Some"
    THEN <<core_find(FS, pattern).name>> ELSE << >>

\* the worktrees a recursive remove of the pattern is to remove
Expanded(pattern) == all_to_remove(FS, wtState, HierMatches(pattern))

\* C37: a forced recursive remove whose pattern matches a worktree and one
\* of its declared children schedules no worktree twice and ends Ok with
\* every worktree of the expanded set and its hierarchy entry gone.
C37_RecursiveRemoveOncePerWorktree ==
    [][\A pattern \in HierPatterns :
         ( /\ last'.op = "remove --recursive"
           /\ last'.arg = pattern
           /\ last'.force
           /\ \E p, c \in SeqToSet(HierMatches(pattern)) :
                 /\ p \in DOMAIN wtState
                 /\ c \in SeqToSet(wtState[p].children) )
         => /\ \A i, j \in 1..Len(Expanded(pattern)) :
                  i # j => Expanded(pattern)[i] # Expanded(pattern)[j]
            /\ last'.res = "Ok"
            /\ \A n \in SeqToSet(Expanded(pattern)) :
                  n \notin marked' /\ n \notin DOMAIN wtState']_vars

C39_StatusOfSomeStateDuringCall ==
    call.pc = "done" => call.res \in call.held

============================================================================
